---- MODULE Spec2Model ----
(***************************************************************************)
(* Model of the YOLO tile splitter of data_process_util                    *)
(* (src/split_images_yolo.py).                                             *)
(*                                                                         *)
(* Python floats are IEEE-754 binary64 numbers.  The splitter's decisions  *)
(* (accept / reject / is_full) compare rounded results, so the model       *)
(* carries binary64 values and rounds every arithmetic result to nearest,  *)
(* ties to even, as CPython does.  A binary64 value is the record          *)
(* [s, m, e] standing for s * m * 2^e with s in {-1,0,1} and m a natural   *)
(* number below 2^53 held as a little-endian sequence of base-2^15 limbs,  *)
(* because the integers of the checker are 32 bits wide.  A normal number  *)
(* has a 53-bit m (2^52 <= m < 2^53) and -1074 <= e <= 971; a subnormal    *)
(* number has e = -1074 and a shorter m; a result beyond the largest       *)
(* number rounds to an infinity (m empty, s the sign) and nan is the       *)
(* record with s = 2.                                                      *)
(***************************************************************************)
EXTENDS Integers, Sequences, FiniteSets, TLC

----------------------------------------------------------------------------
(* Natural numbers of arbitrary size: little-endian limbs, no high zero.   *)

IMax(a, b) == IF b > a THEN b ELSE a
IMin(a, b) == IF b < a THEN b ELSE a

LimbBits == 15
Base == 32768

RECURSIVE Pow2(_)
Pow2(k) == IF k = 0 THEN 1 ELSE 2 * Pow2(k - 1)

\* a without its high zero limbs
BTrim(a) ==
  IF a = <<>> THEN <<>>
  ELSE IF a[Len(a)] # 0 THEN a
  ELSE IF \A i \in 1 .. Len(a) : a[i] = 0 THEN <<>>
  ELSE SubSeq(a, 1, CHOOSE i \in 1 .. Len(a) :
                      a[i] # 0 /\ \A j \in i + 1 .. Len(a) : a[j] = 0)

RECURSIVE BFromInt(_)
BFromInt(n) == IF n = 0 THEN <<>> ELSE <<n % Base>> \o BFromInt(n \div Base)

RECURSIVE BToInt(_)
BToInt(a) == IF a = <<>> THEN 0 ELSE Head(a) + Base * BToInt(Tail(a))

Zeros(n) == [i \in 1 .. n |-> 0]

\* a with high zero limbs, n limbs in all
BPad(a, n) == a \o Zeros(n - Len(a))

\* The operations on many limbs work on the low half and then, with the
\* carry of the low half, on the high half (for a division, the other way
\* round), so that the depth of the evaluation grows with the logarithm of
\* the number of limbs.

\* a limb t that may exceed the base, and the carry
LimbAndCarry(t) == <<t % Base, t \div Base>>

\* the n limbs of a + b + c and then the carry, for a and b of n >= 1 limbs
RECURSIVE BAddFix(_, _, _)
BAddHigh(a, b, h, low) ==
  SubSeq(low, 1, h)
  \o BAddFix(SubSeq(a, h + 1, Len(a)), SubSeq(b, h + 1, Len(a)), low[h + 1])

BAddFix(a, b, c) ==
  IF Len(a) = 1 THEN LimbAndCarry(a[1] + b[1] + c)
  ELSE BAddHigh(a, b, Len(a) \div 2,
                BAddFix(SubSeq(a, 1, Len(a) \div 2), SubSeq(b, 1, Len(a) \div 2), c))

BAddPadded(a, b, c, n) ==
  IF n = 0 THEN (IF c = 0 THEN <<>> ELSE <<c>>)
  ELSE BTrim(BAddFix(BPad(a, n), BPad(b, n), c))

\* a + b + c for a carry c
BAddC(a, b, c) == BAddPadded(a, b, c, IMax(Len(a), Len(b)))

BAdd(a, b) == BAddC(a, b, 0)

\* a limb t that may be negative, and the borrow
LimbAndBorrow(t) == <<(t + Base) % Base, IF t < 0 THEN 1 ELSE 0>>

\* the n limbs of a - b - c and then the borrow, for a and b of n >= 1 limbs
RECURSIVE BSubFix(_, _, _)
BSubHigh(a, b, h, low) ==
  SubSeq(low, 1, h)
  \o BSubFix(SubSeq(a, h + 1, Len(a)), SubSeq(b, h + 1, Len(a)), low[h + 1])

BSubFix(a, b, c) ==
  IF Len(a) = 1 THEN LimbAndBorrow(a[1] - b[1] - c)
  ELSE BSubHigh(a, b, Len(a) \div 2,
                BSubFix(SubSeq(a, 1, Len(a) \div 2), SubSeq(b, 1, Len(a) \div 2), c))

\* a - b for a >= b
BSub(a, b) ==
  IF b = <<>> THEN a
  ELSE BTrim(SubSeq(BSubFix(a, BPad(b, Len(a)), 0), 1, Len(a)))

\* a and b have as many limbs and differ; i is the highest limb that differs
BCmpAt(a, b, i) == IF a[i] < b[i] THEN -1 ELSE 1

\* -1, 0, 1 as a < b, a = b, a > b
BCmp(a, b) ==
  IF Len(a) < Len(b) THEN -1
  ELSE IF Len(a) > Len(b) THEN 1
  ELSE IF a = b THEN 0
  ELSE IF a[Len(a)] # b[Len(a)] THEN BCmpAt(a, b, Len(a))
  ELSE BCmpAt(a, b, CHOOSE i \in 1 .. Len(a) :
                      a[i] # b[i] /\ \A j \in i + 1 .. Len(a) : a[j] = b[j])

\* the n limbs of a * d + c and then the carry, for one limb d and a of
\* n >= 1 limbs
RECURSIVE BMulLimbFix(_, _, _)
BMulLimbHigh(a, d, h, low) ==
  SubSeq(low, 1, h) \o BMulLimbFix(SubSeq(a, h + 1, Len(a)), d, low[h + 1])

BMulLimbFix(a, d, c) ==
  IF Len(a) = 1 THEN LimbAndCarry(a[1] * d + c)
  ELSE BMulLimbHigh(a, d, Len(a) \div 2,
                    BMulLimbFix(SubSeq(a, 1, Len(a) \div 2), d, c))

\* a * d + c for one limb d
BMulLimb(a, d, c) ==
  IF a = <<>> THEN (IF c = 0 THEN <<>> ELSE <<c>>)
  ELSE BTrim(BMulLimbFix(a, d, c))

\* a * b: a times the low half of b and a times its high half
RECURSIVE BMul(_, _)
BMul(a, b) ==
  IF a = <<>> \/ b = <<>> THEN <<>>
  ELSE IF Len(b) = 1 THEN BMulLimb(a, b[1], 0)
  ELSE BAdd(BMul(a, BTrim(SubSeq(b, 1, Len(b) \div 2))),
            Zeros(Len(b) \div 2) \o BMul(a, SubSeq(b, Len(b) \div 2 + 1, Len(b))))

\* a * 2^k
BShl(a, k) ==
  IF a = <<>> THEN <<>>
  ELSE Zeros(k \div LimbBits) \o BMulLimb(a, Pow2(k % LimbBits), 0)

\* the quotient and the remainder of t by d
QuotientAndRest(t, d) == <<t \div d, t % d>>

\* the n limbs of floor((r * Base^n + a) / d) and then the remainder, for
\* one limb d > r and a of n >= 1 limbs: the high half first
RECURSIVE BDivLimbFix(_, _, _)
BDivLimbJoin(low, high) ==
  SubSeq(low, 1, Len(low) - 1) \o SubSeq(high, 1, Len(high) - 1)
  \o <<low[Len(low)]>>

\* (the test has high evaluated before the low half is entered)
BDivLimbLow(a, d, h, high) ==
  IF high = <<>> THEN <<>>
  ELSE BDivLimbJoin(BDivLimbFix(SubSeq(a, 1, h), d, high[Len(high)]), high)

BDivLimbFix(a, d, r) ==
  IF Len(a) = 1 THEN QuotientAndRest(r * Base + a[1], d)
  ELSE BDivLimbLow(a, d, Len(a) \div 2,
                   BDivLimbFix(SubSeq(a, Len(a) \div 2 + 1, Len(a)), d, r))

\* floor(a / d) for one limb d > 0
BDivLimb(a, d) ==
  IF a = <<>> THEN <<>>
  ELSE BTrim(SubSeq(BDivLimbFix(a, d, 0), 1, Len(a)))

\* floor(a / 2^k)
BShr(a, k) ==
  IF k \div LimbBits >= Len(a) THEN <<>>
  ELSE BDivLimb(SubSeq(a, k \div LimbBits + 1, Len(a)), Pow2(k % LimbBits))

RECURSIVE IntBitLen(_)
IntBitLen(n) == IF n = 0 THEN 0 ELSE 1 + IntBitLen(n \div 2)

BBitLen(a) ==
  IF a = <<>> THEN 0 ELSE LimbBits * (Len(a) - 1) + IntBitLen(a[Len(a)])

BOdd(a) == a # <<>> /\ Head(a) % 2 = 1

\* b * d <= r
BFits(r, b, d) == BCmp(BMulLimb(b, d, 0), r) <= 0

\* the largest d in lo..hi with b * d <= r, given b * lo <= r
RECURSIVE BDigit(_, _, _, _)
RECURSIVE BDigitHalf(_, _, _, _, _, _)
BDigit(r, b, lo, hi) ==
  IF lo = hi THEN lo
  ELSE BDigitHalf(r, b, lo, hi, (lo + hi + 1) \div 2,
                  BFits(r, b, (lo + hi + 1) \div 2))

\* fits tells whether b * mid <= r
BDigitHalf(r, b, lo, hi, mid, fits) ==
  BDigit(r, b, IF fits THEN mid ELSE lo, IF fits THEN hi ELSE mid - 1)

\* the limbs of r from the n-th up, as an integer (r has at most n + 1)
BLead(r, n) ==
  IF Len(r) < n THEN 0
  ELSE IF Len(r) = n THEN r[n]
  ELSE r[n] + Base * r[n + 1]

\* floor(r / b) for r < b * Base: it lies between the quotients of the
\* leading limbs of r by the leading limb of b plus one and by the leading
\* limb of b
BQuotDigit(r, b) ==
  IF BCmp(r, b) < 0 THEN 0
  ELSE BDigit(r, b, BLead(r, Len(b)) \div (b[Len(b)] + 1),
              IMin(Base - 1, BLead(r, Len(b)) \div b[Len(b)]))

\* long division by b > 0, one limb of a at a time from the high limb
\* down: r2 is the remainder so far with the next limb brought down and d
\* the next digit of the quotient
BDivModDigit(b, r2, d) == << <<d>>, BSub(r2, BMulLimb(b, d, 0)) >>

BDivModLimb(b, r2) == BDivModDigit(b, r2, BQuotDigit(r2, b))

BDivModJoin(low, high) == << low[1] \o high[1], low[2] >>

\* <<the digits of the quotient for the limbs lo..hi of a, the remainder>>
\* when r is the remainder of the limbs above hi: the high half first (the
\* test has it evaluated before the low half is entered)
RECURSIVE BDivModRange(_, _, _, _, _)
BDivModLow(a, b, lo, mid, high) ==
  IF high = <<>> THEN <<>>
  ELSE BDivModJoin(BDivModRange(a, b, lo, mid, high[2]), high)

BDivModRange(a, b, lo, hi, r) ==
  IF lo = hi THEN BDivModLimb(b, BTrim(<<a[lo]>> \o r))
  ELSE BDivModLow(a, b, lo, (lo + hi) \div 2,
                  BDivModRange(a, b, (lo + hi) \div 2 + 1, hi, r))

BDivModTrim(qr) == <<BTrim(qr[1]), qr[2]>>

\* <<floor(a / b), a mod b>> for b > 0
BDivMod(a, b) ==
  IF a = <<>> THEN << <<>>, <<>> >>
  ELSE BDivModTrim(BDivModRange(a, b, 1, Len(a), <<>>))

----------------------------------------------------------------------------
(* IEEE-754 binary64 values and the arithmetic of Python's float.          *)

MantBits == 53

\* the exponents of the least binary64 value, 2^MinExp, and of the largest
\* mantissa, (2^53 - 1) * 2^MaxExp
MinExp == -1021 - MantBits
MaxExp == 1024 - MantBits

\* a value is [s, m, e]: s * m * 2^e with m of 53 bits, or of fewer bits
\* with e = MinExp (a subnormal); 0.0, inf, -inf and nan have no mantissa
FZero == [s |-> 0, m |-> <<>>, e |-> 0]

\* float("inf") with the sign s
FInf(s) == [s |-> s, m |-> <<>>, e |-> 0]

\* float("nan")
FNaN == [s |-> 2, m |-> <<>>, e |-> 0]

IsNaN(a) == a.s = 2

IsInf(a) == a.m = <<>> /\ a.s \in {-1, 1}

\* q or q + 1 as a 53-bit mantissa: the carry out of the top bit moves the
\* exponent
RoundCarry(s, q2, e) ==
  IF BBitLen(q2) > MantBits
  THEN [s |-> s, m |-> BShr(q2, 1), e |-> e + 1]
  ELSE [s |-> s, m |-> q2, e |-> e]

\* q is M without its low sh bits, c compares those bits with a half
RoundNearest(s, q, e, c) ==
  IF c > 0 \/ (c = 0 /\ BOdd(q))
  THEN RoundCarry(s, BAdd(q, <<1>>), e)
  ELSE [s |-> s, m |-> q, e |-> e]

RoundShift(s, M, e, sh, q) ==
  RoundNearest(s, q, e + sh, BCmp(BSub(M, BShl(q, sh)), BShl(<<1>>, sh - 1)))

\* s * M * 2^e rounded to a multiple of 2^et
RoundBits(s, M, e, et) ==
  IF et <= e
  THEN [s |-> s, m |-> BShl(M, e - et), e |-> et]
  ELSE RoundShift(s, M, e, et - e, BShr(M, et - e))

\* a rounded value in the range of binary64: 0.0 when nothing is left of
\* it, inf when it is too large
RoundRange(r) ==
  IF r.m = <<>> THEN FZero
  ELSE IF r.e > MaxExp THEN FInf(r.s)
  ELSE r

\* the binary64 value nearest to s * M * 2^e (ties to even), for s # 0: 53
\* bits are kept, fewer when the value is under 2^(MinExp + 52)
RoundF(s, M, e) ==
  IF M = <<>> THEN FZero
  ELSE RoundRange(RoundBits(s, M, e, IMax(e + BBitLen(M) - MantBits, MinExp)))

\* float(n) for a Python int n
FInt(n) ==
  IF n = 0 THEN FZero
  ELSE RoundF(IF n < 0 THEN -1 ELSE 1, BFromInt(IF n < 0 THEN -n ELSE n), 0)

FNeg(a) == IF IsNaN(a) THEN a ELSE [a EXCEPT !.s = -a.s]

\* -1, 0, 1 as |a| < |b|, |a| = |b|, |a| > |b|, for a and b other than 0
\* and nan
FCmpMagnitude(a, b) ==
  IF IsInf(a) THEN (IF IsInf(b) THEN 0 ELSE 1)
  ELSE IF IsInf(b) THEN -1
  ELSE IF a.e < b.e THEN -1
  ELSE IF a.e > b.e THEN 1
  ELSE BCmp(a.m, b.m)

\* -1, 0, 1 as a < b, a = b, a > b, and 2 when one of them is nan
FCmp(a, b) ==
  IF IsNaN(a) \/ IsNaN(b) THEN 2
  ELSE IF a.s # b.s THEN (IF a.s < b.s THEN -1 ELSE 1)
  ELSE IF a.s = 0 THEN 0
  ELSE a.s * FCmpMagnitude(a, b)

\* the comparisons, each False when one side is nan
FLt(a, b) == FCmp(a, b) = -1
FLe(a, b) == FCmp(a, b) \in {-1, 0}
FGt(a, b) == FCmp(a, b) = 1
FGe(a, b) == FCmp(a, b) \in {0, 1}

\* sa * A * 2^e0 + sb * B * 2^e0 where c compares A with B
FAddAligned(sa, A, sb, B, e0, c) ==
  IF sa = sb THEN RoundF(sa, BAdd(A, B), e0)
  ELSE IF c = 0 THEN FZero
  ELSE RoundF(IF c > 0 THEN sa ELSE sb,
              IF c > 0 THEN BSub(A, B) ELSE BSub(B, A), e0)

FAddShifted(sa, A, sb, B, e0) == FAddAligned(sa, A, sb, B, e0, BCmp(A, B))

\* a + b
FAdd(a, b) ==
  IF IsNaN(a) \/ IsNaN(b) THEN FNaN
  ELSE IF IsInf(a) THEN (IF IsInf(b) /\ a.s # b.s THEN FNaN ELSE a)
  ELSE IF IsInf(b) THEN b
  ELSE IF a.s = 0 THEN b
  ELSE IF b.s = 0 THEN a
  ELSE FAddShifted(a.s, BShl(a.m, a.e - IMin(a.e, b.e)),
                   b.s, BShl(b.m, b.e - IMin(a.e, b.e)), IMin(a.e, b.e))

\* a - b
FSub(a, b) == FAdd(a, FNeg(b))

\* a * b
FMul(a, b) ==
  IF IsNaN(a) \/ IsNaN(b) THEN FNaN
  ELSE IF a.s = 0 \/ b.s = 0
  THEN (IF IsInf(a) \/ IsInf(b) THEN FNaN ELSE FZero)
  ELSE IF IsInf(a) \/ IsInf(b) THEN FInf(a.s * b.s)
  ELSE RoundF(a.s * b.s, BMul(a.m, b.m), a.e + b.e)

GuardBits == 56

\* twice the quotient plus one bit recording a non-zero remainder
FStickyQuotient(qr) == BAddC(qr[1], qr[1], IF qr[2] = <<>> THEN 0 ELSE 1)

\* the quotient of the mantissas to 57 bits or more, the last one recording
\* a non-zero remainder, then rounded
FDivShifted(a, b, sh) ==
  RoundF(a.s * b.s, FStickyQuotient(BDivMod(BShl(a.m, sh), b.m)),
         a.e - b.e - sh - 1)

\* a / b for b # 0 (a division by zero raises ZeroDivisionError)
FDiv(a, b) ==
  IF IsNaN(a) \/ IsNaN(b) THEN FNaN
  ELSE IF IsInf(a) THEN (IF IsInf(b) THEN FNaN ELSE FInf(a.s * b.s))
  ELSE IF IsInf(b) \/ a.s = 0 THEN FZero
  ELSE FDivShifted(a, b, GuardBits + IMax(0, BBitLen(b.m) - BBitLen(a.m)))

\* int(a) for a finite a: truncation toward zero
FTrunc(a) ==
  IF a.s = 0 THEN 0
  ELSE IF a.e >= 0 THEN a.s * BToInt(BShl(a.m, a.e))
  ELSE a.s * BToInt(BShr(a.m, -a.e))

\* float("n/d" written as a decimal literal): the binary64 nearest to n / d
Dec(n, d) == FDiv(FInt(n), FInt(d))

\* max(a, b) and min(a, b) of Python (the first argument on a tie)
FMax(a, b) == IF FGt(b, a) THEN b ELSE a
FMin(a, b) == IF FLt(b, a) THEN b ELSE a

----------------------------------------------------------------------------
(* YOLOImageSplitter: the pure functions.                                  *)

\* Python's None where a float or an object may stand, and where a list may
None == [none |-> TRUE]
NoList == <<>>

\* lines 154-157 with the overlap taken whole on each side of the middle
SplitLinesWholeOverlap(mid_x, mid_y, overlap_w, overlap_h) ==
  [mid_x |-> mid_x, mid_y |-> mid_y,
   left_split |-> mid_x - overlap_w,
   right_split |-> mid_x + overlap_w,
   top_split |-> mid_y - overlap_h,
   bottom_split |-> mid_y + overlap_h]

\* lines 154-157: the split lines around the middle
SplitLines(mid_x, mid_y, overlap_w, overlap_h) ==
  [mid_x |-> mid_x, mid_y |-> mid_y,
   left_split |-> mid_x - overlap_w \div 2,
   right_split |-> mid_x + overlap_w \div 2,
   top_split |-> mid_y - overlap_h \div 2,
   bottom_split |-> mid_y + overlap_h \div 2]

\* lines 147-148: int(img_width * self.overlap_ratio)
OverlapPixels(side, overlap_ratio) == FTrunc(FMul(FInt(side), overlap_ratio))

\* lines 159-164 with every quadrant stopping at its own side's split line
QuadrantsNearSplit(sp, img_width, img_height) ==
  << <<"top_left", 0, 0, sp.left_split, sp.top_split>>,
     <<"top_right", sp.right_split, 0, img_width, sp.top_split>>,
     <<"bottom_left", 0, sp.bottom_split, sp.left_split, img_height>>,
     <<"bottom_right", sp.right_split, sp.bottom_split, img_width, img_height>> >>

\* lines 159-164 with the x bounds of top_right exchanged
QuadrantsSwapped(sp, img_width, img_height) ==
  << <<"top_left", 0, 0, sp.right_split, sp.bottom_split>>,
     <<"top_right", img_width, 0, sp.left_split, sp.bottom_split>>,
     <<"bottom_left", 0, sp.top_split, sp.right_split, img_height>>,
     <<"bottom_right", sp.left_split, sp.top_split, img_width, img_height>> >>

\* lines 159-164: the four quadrants, each <<name, x1, y1, x2, y2>>
Quadrants(sp, img_width, img_height) ==
  << <<"top_left", 0, 0, sp.right_split, sp.bottom_split>>,
     <<"top_right", sp.left_split, 0, img_width, sp.bottom_split>>,
     <<"bottom_left", 0, sp.top_split, sp.right_split, img_height>>,
     <<"bottom_right", sp.left_split, sp.top_split, img_width, img_height>> >>

\* lines 169-184 with the sub-image size subtracted whole from the middle
CenterRegionWholeSize(sp, img_width, img_height) ==
  LET sub_width == sp.right_split
      sub_height == sp.bottom_split
      center_x1 == sp.mid_x - sub_width
      center_y1 == sp.mid_y - sub_height
      center_x2 == center_x1 + sub_width
      center_y2 == center_y1 + sub_height
  IN <<"center", IMax(0, center_x1), IMax(0, center_y1),
       IMin(img_width, center_x2), IMin(img_height, center_y2)>>

\* lines 169-184: the center region
CenterRegion(sp, img_width, img_height) ==
  LET sub_width == sp.right_split
      sub_height == sp.bottom_split
      center_x1 == sp.mid_x - sub_width \div 2
      center_y1 == sp.mid_y - sub_height \div 2
      center_x2 == center_x1 + sub_width
      center_y2 == center_y1 + sub_height
  IN <<"center", IMax(0, center_x1), IMax(0, center_y1),
       IMin(img_width, center_x2), IMin(img_height, center_y2)>>

\* lines 159-186: the regions for the split lines sp
RegionsAt(sp, img_width, img_height, generate_center) ==
  IF generate_center
  THEN Append(Quadrants(sp, img_width, img_height),
              CenterRegion(sp, img_width, img_height))
  ELSE Quadrants(sp, img_width, img_height)

\* The regions as a sequence of <<name, x1, y1, x2, y2>>; overlap_ratio is
\* a binary64 value, the sizes are Python ints.
calculate_split_regions(img_width, img_height, overlap_ratio, generate_center) ==
  RegionsAt(SplitLines(img_width \div 2, img_height \div 2,
                       OverlapPixels(img_width, overlap_ratio),
                       OverlapPixels(img_height, overlap_ratio)),
            img_width, img_height, generate_center)

\* lines 216-219: the corners <<x1, y1, x2, y2>> of the box in pixels
BoxCorners(x_center, y_center, box_width, box_height) ==
  << FSub(x_center, FDiv(box_width, FInt(2))),
     FSub(y_center, FDiv(box_height, FInt(2))),
     FAdd(x_center, FDiv(box_width, FInt(2))),
     FAdd(y_center, FDiv(box_height, FInt(2))) >>

\* The pixel box <<x1, y1, x2, y2>> of a normalized bbox (lines 210-219).
PixelBox(bbox, img_width, img_height) ==
  BoxCorners(FMul(bbox[1], FInt(img_width)), FMul(bbox[2], FInt(img_height)),
             FMul(bbox[3], FInt(img_width)), FMul(bbox[4], FInt(img_height)))

\* lines 222-225: a pixel box cut to the region
ClipBox(box, region_x1, region_y1, region_x2, region_y2) ==
  << FMax(box[1], FInt(region_x1)), FMax(box[2], FInt(region_y1)),
     FMin(box[3], FInt(region_x2)), FMin(box[4], FInt(region_y2)) >>

\* The pixel box of a bbox cut to the region (lines 210-225).
ClippedBox(bbox, img_width, img_height, region_x1, region_y1, region_x2, region_y2) ==
  ClipBox(PixelBox(bbox, img_width, img_height),
          region_x1, region_y1, region_x2, region_y2)

\* line 232: box_width * box_height
OriginalArea(bbox, img_width, img_height) ==
  FMul(FMul(bbox[3], FInt(img_width)), FMul(bbox[4], FInt(img_height)))

\* line 233, for the clipped box c
ClippedArea(c) == FMul(FSub(c[3], c[1]), FSub(c[4], c[2]))

\* line 234
AreaQuotient(clipped_area, original_area) ==
  IF FGt(original_area, FZero) THEN FDiv(clipped_area, original_area) ELSE FZero

\* area_ratio of line 234, for a clipped box c of positive width and height.
AreaRatio(bbox, img_width, img_height, c) ==
  AreaQuotient(ClippedArea(c), OriginalArea(bbox, img_width, img_height))

\* line 237: the least share of a box a region must hold
MinAreaRatio == Dec(1, 10)

Clamp01(v) == FMax(FZero, FMin(FInt(1), v))

\* line 228 left out
NoIntersectionUnchecked(c) == FALSE

\* line 228: the clipped box is empty
NoIntersection(c) == FGe(c[1], c[3]) \/ FGe(c[2], c[4])

\* line 237 with <= for <
TooSmallInclusive(area_ratio) == FLe(area_ratio, MinAreaRatio)

\* line 237: too little of the box is left in the region
TooSmall(area_ratio) == FLt(area_ratio, MinAreaRatio)

\* line 262: the third component of the result
IsFull(area_ratio) == FGe(area_ratio, FInt(1))

\* lines 251-260 with the left and top edges taken for the center
NormalizedBBoxFromCorner(new_x1, new_y1, new_x2, new_y2, region_width, region_height) ==
  << Clamp01(FDiv(new_x1, region_width)),
     Clamp01(FDiv(new_y1, region_height)),
     Clamp01(FDiv(FSub(new_x2, new_x1), region_width)),
     Clamp01(FDiv(FSub(new_y2, new_y1), region_height)) >>

\* lines 251-260: the normalized center and size, each clamped to [0, 1]
NormalizedBBox(new_x1, new_y1, new_x2, new_y2, region_width, region_height) ==
  << Clamp01(FDiv(FDiv(FAdd(new_x1, new_x2), FInt(2)), region_width)),
     Clamp01(FDiv(FDiv(FAdd(new_y1, new_y2), FInt(2)), region_height)),
     Clamp01(FDiv(FSub(new_x2, new_x1), region_width)),
     Clamp01(FDiv(FSub(new_y2, new_y1), region_height)) >>

\* lines 241-260 without the translation to the region's origin
NewBBoxUntranslated(c, region_x1, region_y1, region_x2, region_y2) ==
  NormalizedBBox(c[1], c[2], c[3], c[4],
                 FInt(region_x2 - region_x1), FInt(region_y2 - region_y1))

\* lines 241-260: the clipped box c in the region's normalized coordinates
NewBBox(c, region_x1, region_y1, region_x2, region_y2) ==
  NormalizedBBox(FSub(c[1], FInt(region_x1)), FSub(c[2], FInt(region_y1)),
                 FSub(c[3], FInt(region_x1)), FSub(c[4], FInt(region_y1)),
                 FInt(region_x2 - region_x1), FInt(region_y2 - region_y1))

\* lines 236-262: the result for the clipped box c and its area_ratio
ConvertByRatio(c, area_ratio, region_x1, region_y1, region_x2, region_y2) ==
  IF TooSmall(area_ratio) THEN <<FALSE, NoList, FALSE>>
  ELSE << TRUE, NewBBox(c, region_x1, region_y1, region_x2, region_y2),
          IsFull(area_ratio) >>

\* lines 227-262: the result for the clipped box c
ConvertClipped(bbox, img_width, img_height, c, region_x1, region_y1, region_x2, region_y2) ==
  IF NoIntersection(c) THEN <<FALSE, NoList, FALSE>>
  ELSE ConvertByRatio(c, AreaRatio(bbox, img_width, img_height, c),
                      region_x1, region_y1, region_x2, region_y2)

\* the clipped box c passes lines 228 and 237, so that line 251 is reached
ReachesNormalization(bbox, img_width, img_height, c) ==
  /\ ~NoIntersection(c)
  /\ ~TooSmall(AreaRatio(bbox, img_width, img_height, c))

\* lines 251-254 raise ZeroDivisionError: the box reaches the division by
\* the width and the height of a region without pixels (on such a region
\* line 228 lets through only a box with a nan corner)
ConvertRaises(bbox, img_width, img_height, region_x1, region_y1, region_x2, region_y2) ==
  /\ region_x2 = region_x1 \/ region_y2 = region_y1
  /\ ReachesNormalization(bbox, img_width, img_height,
                          ClippedBox(bbox, img_width, img_height,
                                     region_x1, region_y1, region_x2, region_y2))

\* <<is_valid, new_bbox, is_full>>, or the exception raised
convert_bbox_to_region(bbox, img_width, img_height, region_x1, region_y1, region_x2, region_y2) ==
  IF ConvertRaises(bbox, img_width, img_height,
                   region_x1, region_y1, region_x2, region_y2)
  THEN [exception |-> "ZeroDivisionError"]
  ELSE ConvertClipped(bbox, img_width, img_height,
                      ClippedBox(bbox, img_width, img_height,
                                 region_x1, region_y1, region_x2, region_y2),
                      region_x1, region_y1, region_x2, region_y2)

----------------------------------------------------------------------------
(* The text of label files: str.split, int(), float() and the "%.6f"       *)
(* formatting of Python, on strings.                                        *)

Char(str, i) == SubSeq(str, i, i)

UpperLetters == "ABCDEFGHIJKLMNOPQRSTUVWXYZ"
LowerLetters == "abcdefghijklmnopqrstuvwxyz"

\* the letter case of float() ("INF", "NaN", "1E5"): the ASCII letters only
AsciiLowerChar(c) ==
  IF \E k \in 1 .. 26 : Char(UpperLetters, k) = c
  THEN Char(LowerLetters, CHOOSE k \in 1 .. 26 : Char(UpperLetters, k) = c)
  ELSE c

RECURSIVE AsciiLower(_)
AsciiLower(str) ==
  IF Len(str) <= 1 THEN AsciiLowerChar(str)
  ELSE AsciiLower(SubSeq(str, 1, Len(str) \div 2))
       \o AsciiLower(SubSeq(str, Len(str) \div 2 + 1, Len(str)))

\* the characters of the rows of a table
RowChars(rows) ==
  UNION {{Char(rows[r], k) : k \in 1 .. Len(rows[r])} : r \in 1 .. Len(rows)}

\* str.lower() character by character: the capital letters, and in
\* LowerRows the small letter of each at the same place.  The capital
\* sigma, last in the table, has a second small letter, in LowerAt.
UpperRows ==
  << "ABCDEFGHIJKLMNOPQRSTUVWXYZ",
     "ÀÁÂÃÄÅÆÇÈÉÊËÌÍÎÏÐÑÒÓÔÕÖØÙÚÛÜÝÞƂƄ",
     "ƇƋƎƑƘƠƢƤƦƧƩƬƮƯƱƲƳƵƷƸƼǄǅǇǈǊǋǍǏǑǓǕ",
     "ǗǙǛǞǠǢǤǦǨǪǬǮǱǲǴǶǷǸǺǼǾΆΈΉΊΌΎΏΑΒΓΔ",
     "ΕΖΗΘΙΚΛΜΝΞΟΠΡΤΥΦΧΨΩΪΫϏϘϚϜϞϠϢϤϦϨϪ",
     "ϬϮϴϷϹϺҀҊҌҎҐҒҔҖҘҚҜҞҠҢҤҦҨҪҬҮҰҲҴҶҸҺ",
     "ҼҾӀӁӃӅӇӉӋӍӐӒӔӖӘӚӜӞӠӢӤӦӨӪӬӮӰӲӴӶӸӺ",
     "ӼӾᎰᎱᎲᎳᎴᎵᎶᎷᎸᎹᎺᎻᎼᎽᎾᎿᏀᏁᏂᏃᏄᏅᏆᏇᏈᏉᏊᏋᏌᏍ",
     "ᏎᏏᏐᏑᏒᏓᏔᏕᏖᏗᏘᏙᏚᏛᏜᏝᏞᏟᏠᏡᏢᏣᏤᏥᏦᏧᏨᏩᏪᏫᏬᏭ",
     "ᏮᏯᏰᏱᏲᏳᏴᏵᲐᲑᲒᲓᲔᲕᲖᲗᲘᲙᲚᲛᲜᲝᲞᲟᲠᲡᲢᲣᲤᲥᲦᲧ",
     "ᲨᲩᲪᲫᲬᲭᲮᲯᲰᲱᲲᲳᲴᲵᲶᲷᲸᲹᲺᲽᲾᲿẀẂẄẆẈẊẌẎẐẒ",
     "ẔẞẠẢẤẦẨẪẬẮẰẲẴẶẸẺẼẾỀỂỄỆỈỊỌỎỐỒỔỖỘỚ",
     "ỜỞỠỢỤỦỨỪỬỮỰỲỴỶỸỺỼỾᾈᾉᾊᾋᾌᾍᾎᾏᾘᾙᾚᾛᾜᾝ",
     "ᾞᾟᾨᾩᾪᾫᾬᾭᾮᾯᾸᾹᾼῌῘῙῨῩῬῼↃⒶⒷⒸⒹⒺⒻⒼⒽⒾⒿⓀ",
     "ⓁⓂⓃⓄⓅⓆⓇⓈⓉⓊⓋⓌⓍⓎⓏⲀⲂⲄⲆⲈⲊⲌⲎⲐⲒⲔⲖⲘⲚⲜⲞⲠ",
     "ⲢⲤⲦⲨⲪⲬⲮⲰⲲⲴⲶⲸⲺⲼⲾⳀⳂⳄⳆⳈⳊⳌⳎⳐⳒⳔⳖⳘⳚⳜⳞⳠ",
     "ⳢⳫⳭⳲꚀꚂꚄꚆꚈꚊꚌꚎꚐꚒꚔꚖꚘꚚꞀꞂꞄꞆꞋꞐꞒꞖꞘꞚꞜꞞꞠꞢ",
     "ꞤꞦꞨꞰꞱꞲꞴꞶꞸꞺꞼꞾꟀꟂꟄꟅꟆꟇꟉꟐꟖꟘꟵ",
     "Σ" >>

LowerRows ==
  << "abcdefghijklmnopqrstuvwxyz",
     "àáâãäåæçèéêëìíîïðñòóôõöøùúûüýþƃƅ",
     "ƈƌǝƒƙơƣƥʀƨʃƭʈưʊʋƴƶʒƹƽǆǆǉǉǌǌǎǐǒǔǖ",
     "ǘǚǜǟǡǣǥǧǩǫǭǯǳǳǵƕƿǹǻǽǿάέήίόύώαβγδ",
     "εζηθικλμνξοπρτυφχψωϊϋϗϙϛϝϟϡϣϥϧϩϫ",
     "ϭϯθϸϲϻҁҋҍҏґғҕҗҙқҝҟҡңҥҧҩҫҭүұҳҵҷҹһ",
     "ҽҿӏӂӄӆӈӊӌӎӑӓӕӗәӛӝӟӡӣӥӧөӫӭӯӱӳӵӷӹӻ",
     "ӽӿꮀꮁꮂꮃꮄꮅꮆꮇꮈꮉꮊꮋꮌꮍꮎꮏꮐꮑꮒꮓꮔꮕꮖꮗꮘꮙꮚꮛꮜꮝ",
     "ꮞꮟꮠꮡꮢꮣꮤꮥꮦꮧꮨꮩꮪꮫꮬꮭꮮꮯꮰꮱꮲꮳꮴꮵꮶꮷꮸꮹꮺꮻꮼꮽ",
     "ꮾꮿᏸᏹᏺᏻᏼᏽაბგდევზთიკლმნოპჟრსტუფქღყ",
     "შჩცძწჭხჯჰჱჲჳჴჵჶჷჸჹჺჽჾჿẁẃẅẇẉẋẍẏẑẓ",
     "ẕßạảấầẩẫậắằẳẵặẹẻẽếềểễệỉịọỏốồổỗộớ",
     "ờởỡợụủứừửữựỳỵỷỹỻỽỿᾀᾁᾂᾃᾄᾅᾆᾇᾐᾑᾒᾓᾔᾕ",
     "ᾖᾗᾠᾡᾢᾣᾤᾥᾦᾧᾰᾱᾳῃῐῑῠῡῥῳↄⓐⓑⓒⓓⓔⓕⓖⓗⓘⓙⓚ",
     "ⓛⓜⓝⓞⓟⓠⓡⓢⓣⓤⓥⓦⓧⓨⓩⲁⲃⲅⲇⲉⲋⲍⲏⲑⲓⲕⲗⲙⲛⲝⲟⲡ",
     "ⲣⲥⲧⲩⲫⲭⲯⲱⲳⲵⲷⲹⲻⲽⲿⳁⳃⳅⳇⳉⳋⳍⳏⳑⳓⳕⳗⳙⳛⳝⳟⳡ",
     "ⳣⳬⳮⳳꚁꚃꚅꚇꚉꚋꚍꚏꚑꚓꚕꚗꚙꚛꞁꞃꞅꞇꞌꞑꞓꞗꞙꞛꞝꞟꞡꞣ",
     "ꞥꞧꞩʞʇʝꞵꞷꞹꞻꞽꞿꟁꟃꞔʂᶎꟈꟊꟑꟗꟙꟶ",
     "σ" >>

UpperChars == RowChars(UpperRows)

CasePairs ==
  UNION {{<<Char(UpperRows[r], k), Char(LowerRows[r], k)>> :
            k \in 1 .. Len(UpperRows[r])} : r \in 1 .. Len(UpperRows)}

LowerOf == [c \in UpperChars |-> (CHOOSE p \in CasePairs : p[1] = c)[2]]

\* A string of this language holds, beyond ASCII, the characters of the
\* basic plane whose code point has bit 7 set.  The small letter of each of
\* these 93 capitals is no such character: it is given by its code point,
\* as the record [ord |-> n], in UnwrittenOrds at the place of the capital.
UnwrittenRows ==
  << "ƁƆƉƊƏƐƓƔ",
     "ƖƗƜƝƟϽϾϿ",
     "ႠႡႢႣႤႥႦႧ",
     "ႨႩႪႫႬႭႮႯ",
     "ႰႱႲႳႴႵႶႷ",
     "ႸႹႺႻႼႽႾႿ",
     "ჀჁჂჃჄჅჇჍ",
     "ᎠᎡᎢᎣᎤᎥᎦᎧ",
     "ᎨᎩᎪᎫᎬᎭᎮᎯ",
     "ᾺΆῈΈῊΉῚΊ",
     "ῪΎῸΌῺΏꞍꞪ",
     "ꞫꞬꞭꞮꞳ" >>

UnwrittenOrds ==
  << <<595, 596, 598, 599, 601, 603, 608, 611>>,
     <<617, 616, 623, 626, 629, 891, 892, 893>>,
     <<11520, 11521, 11522, 11523, 11524, 11525, 11526, 11527>>,
     <<11528, 11529, 11530, 11531, 11532, 11533, 11534, 11535>>,
     <<11536, 11537, 11538, 11539, 11540, 11541, 11542, 11543>>,
     <<11544, 11545, 11546, 11547, 11548, 11549, 11550, 11551>>,
     <<11552, 11553, 11554, 11555, 11556, 11557, 11559, 11565>>,
     <<43888, 43889, 43890, 43891, 43892, 43893, 43894, 43895>>,
     <<43896, 43897, 43898, 43899, 43900, 43901, 43902, 43903>>,
     <<8048, 8049, 8050, 8051, 8052, 8053, 8054, 8055>>,
     <<8058, 8059, 8056, 8057, 8060, 8061, 613, 614>>,
     <<604, 609, 620, 618, 43859>> >>

Unwritten == RowChars(UnwrittenRows)

UnwrittenPairs ==
  UNION {{<<Char(UnwrittenRows[r], k), UnwrittenOrds[r][k]>> :
            k \in 1 .. Len(UnwrittenRows[r])} : r \in 1 .. Len(UnwrittenRows)}

OrdOf == [c \in Unwritten |-> (CHOOSE p \in UnwrittenPairs : p[1] = c)[2]]

\* the small letter of a character: a character, or [ord |-> n] for a small
\* letter that cannot be written
LowerChar(c) ==
  IF c \in UpperChars THEN LowerOf[c]
  ELSE IF c \in Unwritten THEN [ord |-> OrdOf[c]]
  ELSE c

\* the cased characters that are in neither of the two tables
OtherCasedRows ==
  << "ªµºÿƀƍƚƛƞƪƫƺƾǰʁʄʅʆʉʌʍʎʏʐʑʓʕʖʗʘʙʚ",
     "ʛʜʟʠʡʢʣʤʥʦʧʨʩʪʫʬʭʮʯΐΰϐϑϒϓϔϕϖϰϱϳϵ",
     "ϼրցւփքօֆևֈᲀᲁᲂᲃᲄᲅᲆᲇᲈᶀᶁᶂᶃᶄᶅᶆᶇᶈᶉᶊᶋᶌ",
     "ᶍᶏᶐᶑᶒᶓᶔᶕᶖᶗᶘᶙᶚẖẗẘẙẚẛẜẝẟᾲᾴᾶᾷιῂῄῆῇῒ",
     "ΐῖῗῢΰῤῦῧῲῴῶῷⳤꞎꞕꞯꟓꟕꟺ" >>

\* the characters that have a letter case and are not case-ignorable
Cased ==
  UpperChars \cup RowChars(LowerRows) \cup Unwritten \cup RowChars(OtherCasedRows)
  \cup {"ς"}

\* the case-ignorable characters: marks, modifiers and some punctuation
\* (the grave accent of ASCII is one and cannot be written)
CaseIgnorableRows ==
  << "'.:^",
     "¨­¯´·¸ʰʱʲʳʴʵʶʷʸʹʺʻʼʽʾʿˀˁ˂˃˄˅ˆˇˈˉ",
     "ˊˋˌˍˎˏːˑ˒˓˔˕˖˗˘˙˚˛˜˝˞˟ˠˡˢˣˤ˥˦˧˨˩",
     "˪˫ˬ˭ˮ˯˰˱˲˳˴˵˶˷˸˹˺˻˼˽˾˿΄΅·҃҄҅҆҇҈҉",
     "ְ֑֖֛֢֣֤֥֦֧֪֚֭֮֒֓֔֕֗֘֙֜֝֞֟֠֡֨֩֫֬֯",
     "ֱֲֳִֵֶַָׇֹֺֻּֽֿׁׂׅׄ״ۖۗۘۙۚۛۜ۝۟۠ۡۢ",
     "ۣۤۥۦ۪ۭۧۨ۫۬ަާިީުޫެޭޮޯް߲߫߬߭߮߯߰߱߳ߴߵ",
     "ߺ߽࢈࢐࢑࢙࢚࢛࢘࢜࢝࢞࢟ࣉ࣏࣐࣑࣒࣓࣊࣋࣌࣍࣎ࣔࣕࣖࣗࣘࣙࣚࣛ",
     "ࣜࣝࣞࣟ࣠࣡࣢ࣰࣱࣲࣣࣦࣩ࣭࣮࣯ࣶࣹࣺࣤࣥࣧࣨ࣪࣫࣬ࣳࣴࣵࣷࣸࣻ",
     "ࣼࣽࣾࣿঁ়ুূৃৄ্ৢৣ৾ઁં઼ુૂૃૄૅેૈ્ૢૣૺૻૼ૽૾",
     "૿ஂீ்ಁ಼ಿೆೌ್ೢೣඁ්ිීුූັິີຶື຺ຸູົຼໆ່້໊",
     "໋໌ໍ྄ཱྀྀྂྃ྆྇ྍྎྏྐྑྒྒྷྔྕྖྗྙྚྛྜྜྷྞྟྠྡྡྷྣ",
     "ྤྥྦྦྷྨྩྪྫྫྷྭྮྯྰྱྲླྴྵྶྷྸྐྵྺྻྼ࿆ႂႅႆႍႝჼ",
     "឴឵ិីឹឺុូួំ៉៊់៌៍៎៏័៑្៓ៗ៝ᢅᢆᢩᪧ᪰᪱᪲᪳᪴",
     "᪵᪶᪷᪸᪹᪺᪽᪻᪼᪾ᪿᫀ᫃᫄᫊᫁᫂᫅᫆᫇᫈᫉᫋ᫌᫍᫎᮀᮁᮢᮣᮤᮥ",
     "ᮨᮩ᮫ᮬᮭ᯦ᯨᯩᯭᯯᯰᯱ᳔᳢᳣᳤᳥᳕᳖᳗᳘᳙᳜᳝᳞᳟᳐᳑᳒᳚᳛᳠",
     "᳦᳧᳨᳭᳴᳸᳹ᶛᶜᶝᶞᶟᶠᶡᶢᶣᶤᶥᶦᶧᶨᶩᶪᶫᶬᶭᶮᶯᶰᶱᶲᶳ",
     "ᶴᶵᶶᶷᶸᶹᶺᶻᶼᶽᶾᶿ᷐᷎᷂᷊᷏᷀᷁᷃᷄᷅᷆᷇᷈᷉᷋᷌᷑᷒ᷓ᷍",
     "ᷔᷕᷖᷗᷘᷙᷚᷛᷜᷝᷞᷟᷠᷡᷢᷣᷤᷥᷦᷧᷨᷩᷪᷫᷬᷭᷮᷯᷰᷱᷲᷳ",
     "᷺᷹᷽᷿᷷᷸ᷴ᷵᷻᷾᷶᷼᾽᾿῀῁῍῎῏῝῞῟῭΅`´῾ₐₑₒₓₔ",
     "ₕₖₗₘₙₚₛₜ⃒⃓⃘⃙⃚⃐⃑⃔⃕⃖⃗⃛⃜⃝⃞⃟⃠⃡⃢⃣⃤⃥⃦⃧",
     "⃪⃫⃨⃬⃭⃮⃯⃩⃰⳯⳰⳱ⷠⷡⷢⷣⷤⷥⷦⷧⷨⷩⷪⷫⷬⷭⷮⷯⷰⷱⷲⷳ",
     "゙゚ⷴⷵⷶⷷⷸⷹⷺⷻⷼⷽⷾⷿ゛゜ゝゞーヽヾꓸꓹꓺꓻꓼꓽꚜꚝꚞꚟ꛰",
     "꛱ꞈ꞉꞊ꟲꟳꟴꟸꟹ꣄ꣅ꣠꣡꣢꣣꣤꣥꣦꣧꣨꣩꣪꣫꣬꣭꣮꣯꣰꣱ꣿꦀꦁ",
     "ꦂ꦳ꦶꦷꦸꦹꦼꦽꧏꧥꧦꪴꪰꪲꪳꪷꪸꪾ꪿꫁ꫝꫬꫭꫳꫴ꫶ꯥꯨ꯭﮲﮳﮴",
     "﮵﮶﮷﮸﮹﮺﮻﮼﮽﮾﮿﯀﯁﯂﻿ﾞﾟ￣￹￺￻" >>

CaseIgnorable == RowChars(CaseIgnorableRows)

\* a cased character comes before place j, case-ignorable ones skipped
RECURSIVE CasedBefore(_, _)
CasedBefore(str, j) ==
  IF j < 1 THEN FALSE
  ELSE IF Char(str, j) \in CaseIgnorable THEN CasedBefore(str, j - 1)
  ELSE Char(str, j) \in Cased

\* a cased character comes from place j on, case-ignorable ones skipped
RECURSIVE CasedAfter(_, _)
CasedAfter(str, j) ==
  IF j > Len(str) THEN FALSE
  ELSE IF Char(str, j) \in CaseIgnorable THEN CasedAfter(str, j + 1)
  ELSE Char(str, j) \in Cased

\* the capital sigma at place i ends a word
FinalSigma(str, i) == CasedBefore(str, i - 1) /\ ~CasedAfter(str, i + 1)

LowerAt(str, i) ==
  IF Char(str, i) = "Σ"
  THEN (IF FinalSigma(str, i) THEN "ς" ELSE "σ")
  ELSE LowerChar(Char(str, i))

RECURSIVE LowerFrom(_, _)
LowerFrom(str, i) ==
  IF i > Len(str) THEN "" ELSE LowerAt(str, i) \o LowerFrom(str, i + 1)

\* every small letter of str.lower() can be written
LowerIsWritten(str) == \A i \in 1 .. Len(str) : Char(str, i) \notin Unwritten

\* str.lower(): a string, or the sequence of its characters when one of
\* them cannot be written
Lower(str) ==
  IF LowerIsWritten(str) THEN LowerFrom(str, 1)
  ELSE [i \in 1 .. Len(str) |-> LowerAt(str, i)]

\* the characters str.isspace() holds for, of those a string of this
\* language can hold: tab, line feed, VT, FF, CR, FS, GS, RS, US, space,
\* NEL, the no-break space and the ogham space mark (the spaces U+2000 to
\* U+200A, U+2028, U+2029, U+202F, U+205F and U+3000 cannot be written)
Whitespace ==
  {" ", "\t", "\n", "\f", "\r", "", "", "", "", "", "", " ", " "}

\* str.split() from position i on: word is the field being read, parts the
\* fields read so far
RECURSIVE SplitFrom(_, _, _, _)
SplitFrom(line, i, word, parts) ==
  IF i > Len(line)
  THEN (IF word = "" THEN parts ELSE Append(parts, word))
  ELSE IF Char(line, i) \in Whitespace
  THEN SplitFrom(line, i + 1, "", IF word = "" THEN parts ELSE Append(parts, word))
  ELSE SplitFrom(line, i + 1, word \o Char(line, i), parts)

\* line.strip().split() of line 298
Split(line) == SplitFrom(line, 1, "", <<>>)

\* the decimal digits int() and float() read, 0 to 9 in each row: ASCII and
\* the digits of other scripts that a string of this language can hold
DigitRows ==
  << "0123456789",
     "۰۱۲۳۴۵۶۷۸۹",
     "߀߁߂߃߄߅߆߇߈߉",
     "০১২৩৪৫৬৭৮৯",
     "૦૧૨૩૪૫૬૭૮૯",
     "௦௧௨௩௪௫௬௭௮௯",
     "೦೧೨೩೪೫೬೭೮೯",
     "෦෧෨෩෪෫෬෭෮෯",
     "໐໑໒໓໔໕໖໗໘໙",
     "႐႑႒႓႔႕႖႗႘႙",
     "០១២៣៤៥៦៧៨៩",
     "᧐᧑᧒᧓᧔᧕᧖᧗᧘᧙",
     "᪀᪁᪂᪃᪄᪅᪆᪇᪈᪉",
     "᪐᪑᪒᪓᪔᪕᪖᪗᪘᪙",
     "᮰᮱᮲᮳᮴᮵᮶᮷᮸᮹",
     "꣐꣑꣒꣓꣔꣕꣖꣗꣘꣙",
     "꧐꧑꧒꧓꧔꧕꧖꧗꧘꧙",
     "꧰꧱꧲꧳꧴꧵꧶꧷꧸꧹",
     "꯰꯱꯲꯳꯴꯵꯶꯷꯸꯹" >>

DigitChars == {Char(DigitRows[r], d) : r \in 1 .. Len(DigitRows), d \in 1 .. 10}

DigitOf(c) ==
  CHOOSE d \in 0 .. 9 : \E r \in 1 .. Len(DigitRows) : Char(DigitRows[r], d + 1) = c

DigitStr(d) == Char("0123456789", d + 1)

IsDigits(str) == str # "" /\ \A i \in 1 .. Len(str) : Char(str, i) \in DigitChars

RECURSIVE DigitsValue(_)
DigitsValue(str) ==
  IF str = "" THEN 0
  ELSE 10 * DigitsValue(SubSeq(str, 1, Len(str) - 1)) + DigitOf(Char(str, Len(str)))

RECURSIVE Pow10(_)
Pow10(k) == IF k = 0 THEN 1 ELSE 10 * Pow10(k - 1)

HasSign(str) == str # "" /\ Char(str, 1) \in {"-", "+"}

SignOf(str) == IF str # "" /\ Char(str, 1) = "-" THEN -1 ELSE 1

Unsigned(str) == IF HasSign(str) THEN SubSeq(str, 2, Len(str)) ELSE str

\* every "_" of str stands between two digits
UnderscoresBetweenDigits(str) ==
  \A i \in 1 .. Len(str) :
    Char(str, i) = "_" =>
      /\ 1 < i /\ i < Len(str)
      /\ Char(str, i - 1) \in DigitChars
      /\ Char(str, i + 1) \in DigitChars

\* str without its digit separators, half by half
RECURSIVE WithoutUnderscores(_)
WithoutUnderscores(str) ==
  IF Len(str) <= 1 THEN (IF str = "_" THEN "" ELSE str)
  ELSE WithoutUnderscores(SubSeq(str, 1, Len(str) \div 2))
       \o WithoutUnderscores(SubSeq(str, Len(str) \div 2 + 1, Len(str)))

\* the number of characters of str that are no digit separators
DigitCount(str) ==
  Len(str) - Cardinality({i \in 1 .. Len(str) : Char(str, i) = "_"})

\* the whitespace int() and float() ignore at the ends of their argument:
\* all of it but the four separators FS, GS, RS and US
NumberSpace == Whitespace \ {"", "", "", ""}

\* str without the characters of NumberSpace at its ends
Strip(str) ==
  IF \A i \in 1 .. Len(str) : Char(str, i) \in NumberSpace THEN ""
  ELSE SubSeq(str,
              CHOOSE i \in 1 .. Len(str) :
                Char(str, i) \notin NumberSpace
                /\ \A j \in 1 .. i - 1 : Char(str, j) \in NumberSpace,
              CHOOSE i \in 1 .. Len(str) :
                Char(str, i) \notin NumberSpace
                /\ \A j \in i + 1 .. Len(str) : Char(str, j) \in NumberSpace)

\* an optional sign, then decimal digits with single "_" between them, at
\* most 4300 digits (sys.get_int_max_str_digits() of CPython 3.11, which
\* float() does not have)
IsIntText(text) ==
  /\ DigitCount(Unsigned(text)) <= 4300
  /\ UnderscoresBetweenDigits(Unsigned(text))
  /\ IsDigits(WithoutUnderscores(Unsigned(text)))

\* int(str) of line 300 does not raise ValueError: the whitespace at the
\* ends of str is ignored
IsInt(str) == IsIntText(Strip(str))

IntOfText(text) == SignOf(text) * DigitsValue(WithoutUnderscores(Unsigned(text)))

\* int(str)
IntOf(str) == IntOfText(Strip(str))

\* the position of the first character c of str, 0 when there is none
FirstAt(str, c) ==
  IF \E i \in 1 .. Len(str) : Char(str, i) = c
  THEN CHOOSE i \in 1 .. Len(str) :
         Char(str, i) = c /\ \A j \in 1 .. i - 1 : Char(str, j) # c
  ELSE 0

DotAt(str) == FirstAt(str, ".")

IntPart(str) ==
  IF DotAt(str) = 0 THEN str ELSE SubSeq(str, 1, DotAt(str) - 1)

FracPart(str) ==
  IF DotAt(str) = 0 THEN "" ELSE SubSeq(str, DotAt(str) + 1, Len(str))

\* the text float() parses, in lower case: no sign, no digit separators
FloatText(str) == AsciiLower(WithoutUnderscores(Unsigned(str)))

\* text, in lower case, before its exponent
Mantissa(text) ==
  IF FirstAt(text, "e") = 0 THEN text ELSE SubSeq(text, 1, FirstAt(text, "e") - 1)

\* the exponent of text with its sign, "" when there is none
ExponentText(text) ==
  IF FirstAt(text, "e") = 0 THEN ""
  ELSE SubSeq(text, FirstAt(text, "e") + 1, Len(text))

\* digits with at most one "." among them
IsPointNumber(text) ==
  /\ IntPart(text) = "" \/ IsDigits(IntPart(text))
  /\ FracPart(text) = "" \/ IsDigits(FracPart(text))
  /\ IntPart(text) \o FracPart(text) # ""

\* a decimal number, with an exponent of digits after "e" when there is one
IsNumber(text) ==
  /\ IsPointNumber(Mantissa(text))
  /\ FirstAt(text, "e") # 0 => IsDigits(Unsigned(ExponentText(text)))

IsInfinity(text) == text \in {"inf", "infinity"}

\* an optional sign, then "inf", "infinity" or "nan" in any case, or a
\* decimal number with or without an exponent, with single "_" between
\* digits
IsFloatText(text) ==
  /\ UnderscoresBetweenDigits(text)
  /\ \/ IsInfinity(FloatText(text))
     \/ FloatText(text) = "nan"
     \/ IsNumber(FloatText(text))

\* float(str) of line 301 does not raise ValueError: the whitespace at the
\* ends of str is ignored
IsFloat(str) == IsFloatText(Strip(str))

BSquare(a) == BMul(a, a)

\* 10^k
RECURSIVE BPow10(_)
BPow10(k) ==
  IF k = 0 THEN <<1>>
  ELSE IF k % 2 = 0 THEN BSquare(BPow10(k \div 2))
  ELSE BMul(<<10>>, BPow10(k - 1))

\* the number written by decimal digits, of any length: up to four digits
\* make a limb, more are the high half times a power of ten plus the low
\* half
RECURSIVE BDigitsValue(_)
BDigitsValue(str) ==
  IF Len(str) <= 4 THEN BFromInt(DigitsValue(str))
  ELSE BAdd(BMul(BDigitsValue(SubSeq(str, 1, Len(str) \div 2)),
                 BPow10(Len(str) - Len(str) \div 2)),
            BDigitsValue(SubSeq(str, Len(str) \div 2 + 1, Len(str))))

\* the binary64 value nearest to s * N / D, the quotient taken to sh bits
\* more than D has
DecimalShifted(s, N, D, sh) ==
  RoundF(s, FStickyQuotient(BDivMod(BShl(N, sh), D)), -sh - 1)

DecimalQuotient(s, N, D) ==
  IF N = <<>> THEN FZero ELSE DecimalShifted(s, N, D, GuardBits + BBitLen(D))

\* digits without their leading zeros
RECURSIVE StripZeros(_)
StripZeros(digits) ==
  IF digits # "" /\ DigitOf(Char(digits, 1)) = 0
  THEN StripZeros(SubSeq(digits, 2, Len(digits)))
  ELSE digits

\* the number written by the digits of an exponent; from 10^6 on it is
\* taken for 10^6, beyond which every binary64 value is 0.0 or inf
ExponentDigits(digits) ==
  IF Len(digits) > 6 THEN 1000000 ELSE DigitsValue(digits)

\* the exponent written in a number in lower case, 0 when there is none
ExponentOf(text) ==
  SignOf(ExponentText(text)) * ExponentDigits(StripZeros(Unsigned(ExponentText(text))))

\* the binary64 value nearest to s * N * 10^k for N of nd digits: inf from
\* 10^310 on and 0.0 under 10^-325, without the quotient
DecimalScaled(s, N, nd, k) ==
  IF N = <<>> THEN FZero
  ELSE IF k > 309 THEN FInf(s)
  ELSE IF nd + k < -324 THEN FZero
  ELSE IF k >= 0 THEN RoundF(s, BMul(N, BPow10(k)), 0)
  ELSE DecimalQuotient(s, N, BPow10(-k))

\* the value of the decimal number digits * 10^k
DecimalOf(s, digits, k) ==
  DecimalScaled(s, BDigitsValue(digits), Len(digits), k)

\* the value of a number in lower case with the sign s
NumberOf(s, mantissa, exponent) ==
  DecimalOf(s, IntPart(mantissa) \o FracPart(mantissa),
            exponent - Len(FracPart(mantissa)))

\* float of a text in lower case with the sign s
FloatOfText(s, text) ==
  IF IsInfinity(text) THEN FInf(s)
  ELSE IF text = "nan" THEN FNaN
  ELSE NumberOf(s, Mantissa(text), ExponentOf(text))

\* float(str): the binary64 value nearest to the decimal number written,
\* inf or nan
FloatOf(str) == FloatOfText(SignOf(Strip(str)), FloatText(Strip(str)))

\* str(n) for a Python int n >= 0
RECURSIVE NatStr(_)
NatStr(n) == IF n < 10 THEN DigitStr(n) ELSE NatStr(n \div 10) \o DigitStr(n % 10)

\* str(n) for a Python int n
IntStr(n) == IF n < 0 THEN "-" \o NatStr(-n) ELSE NatStr(n)

\* the decimal digits of n, at least k of them
RECURSIVE ZeroPad(_, _)
ZeroPad(str, k) == IF Len(str) >= k THEN str ELSE ZeroPad("0" \o str, k)

\* q or q + 1: q is floor(M / 2^sh), c compares the low sh bits of M with a
\* half (the tie goes to the even one, as the exact decimal expansion of a
\* binary64 value rounds)
NearestInt(q, c) ==
  IF c > 0 \/ (c = 0 /\ BOdd(q)) THEN BToInt(q) + 1 ELSE BToInt(q)

NearestShifted(M, sh, q) ==
  NearestInt(q, BCmp(BSub(M, BShl(q, sh)), BShl(<<1>>, sh - 1)))

\* round(m * 10^6 * 2^e) for a binary64 value [s, m, e] in 0 .. 1
Millionths(v) ==
  IF v.s = 0 THEN 0
  ELSE IF v.e >= 0 THEN BToInt(BShl(BMul(v.m, BFromInt(1000000)), v.e))
  ELSE NearestShifted(BMul(v.m, BFromInt(1000000)), -v.e,
                      BShr(BMul(v.m, BFromInt(1000000)), -v.e))

\* n millionths written with six decimals
SixDecimals(n) ==
  IntStr(n \div 1000000) \o "." \o ZeroPad(NatStr(n % 1000000), 6)

\* f"{v:.6f}" of line 341, for a clamped coordinate 0 <= v <= 1
Format6(v) == SixDecimals(Millionths(v))

----------------------------------------------------------------------------
(* File names (pathlib) and the pure functions of SplitYOLOCleaner.        *)

\* the position of the last "." of name, 0 when there is none
RECURSIVE LastDot(_, _)
LastDot(name, i) ==
  IF i = 0 THEN 0 ELSE IF Char(name, i) = "." THEN i ELSE LastDot(name, i - 1)

\* the name has a suffix: a "." that is neither its first nor its last
\* character
HasSuffix(name) ==
  1 < LastDot(name, Len(name)) /\ LastDot(name, Len(name)) < Len(name)

\* Path(name).suffix
PathSuffix(name) ==
  IF HasSuffix(name) THEN SubSeq(name, LastDot(name, Len(name)), Len(name)) ELSE ""

\* Path(name).stem
PathStem(name) ==
  IF HasSuffix(name) THEN SubSeq(name, 1, LastDot(name, Len(name)) - 1) ELSE name

\* str.endswith(suffix)
EndsWith(str, suffix) ==
  /\ Len(suffix) <= Len(str)
  /\ SubSeq(str, Len(str) - Len(suffix) + 1, Len(str)) = suffix

SUPPORTED_IMAGE_EXTS == {".jpg", ".jpeg", ".png", ".bmp", ".tif", ".tiff"}

SPLIT_SUFFIXES ==
  {"_top_left", "_top_right", "_bottom_left", "_bottom_right",
   "_tl", "_tr", "_bl", "_br", "_center"}

\* suffix.lower() in SUPPORTED_IMAGE_EXTS: a suffix with a small letter that
\* cannot be written is none of them
IsSupportedImage(name) ==
  /\ LowerIsWritten(PathSuffix(name))
  /\ Lower(PathSuffix(name)) \in SUPPORTED_IMAGE_EXTS

\* the suffixes the loops of lines 81 and 144 can stop at
MatchingSuffixes(stem) == {suffix \in SPLIT_SUFFIXES : EndsWith(stem, suffix)}

\* lines 80-84 with the stem compared to the suffix as a whole
IsSplitStemWhole(stem) == stem \in SPLIT_SUFFIXES

\* lines 80-84: the stem ends with one of the suffixes
IsSplitStem(stem) == MatchingSuffixes(stem) # {}

\* identify_split_images: the names of the images of the directory that are
\* tiles by their name
identify_split_images(dir) ==
  {f.name : f \in {g \in dir : IsSupportedImage(g.name) /\ IsSplitStem(PathStem(g.name))}}

\* line 146: stem[:-len(suffix)]
StripSuffix(stem, suffix) == SubSeq(stem, 1, Len(stem) - Len(suffix))

\* lines 142-148: the values original_stem can take for a tile name, one
\* for each suffix the loop over the set SPLIT_SUFFIXES can meet first
OriginalStems(split_image) ==
  {StripSuffix(PathStem(split_image), suffix) :
     suffix \in MatchingSuffixes(PathStem(split_image))}

\* the names of the files of a directory; a file is [name, content]
FileNames(dir) == {f.name : f \in dir}

\* a path below the dataset directory
ImagePath(name) == [dir |-> "images", name |-> name]
LabelPath(name) == [dir |-> "labels", name |-> name]

\* lines 102-105 alone: the tiles without their labels
SplitFilesImagesOnly(images, labels, split) ==
  {ImagePath(n) : n \in {x \in split : x \in FileNames(images)}}

\* lines 102-111: the tiles and the labels of the tiles that exist
SplitFiles(images, labels, split) ==
  {ImagePath(n) : n \in {x \in split : x \in FileNames(images)}}
  \cup {LabelPath(PathStem(n) \o ".txt") :
          n \in {x \in split : (PathStem(x) \o ".txt") \in FileNames(labels)}}

\* lines 134-137
AllImageStems(images) ==
  {PathStem(n) : n \in {x \in FileNames(images) : IsSupportedImage(x)}}

\* lines 140-148
SplitImageOriginals(split) == UNION {OriginalStems(n) : n \in split}

\* lines 151-152: the stems of tiles' originals that images have
StemsToDelete(images, split) ==
  SplitImageOriginals(split) \cap AllImageStems(images)

\* line 155: the images the loop of line 154 can stop at for a stem
ImagesOfStem(images, stem) ==
  {n \in FileNames(images) : PathStem(n) = stem /\ IsSupportedImage(n)}

\* lines 151-157: the values original_images can take, one image for each
\* stem: the first that iterdir() lists, and the order of iterdir() is
\* arbitrary
OriginalImageChoices(images, split) ==
  {{pick[stem] : stem \in StemsToDelete(images, split)} :
     pick \in {p \in [StemsToDelete(images, split) -> FileNames(images)] :
                 \A stem \in StemsToDelete(images, split) :
                   p[stem] \in ImagesOfStem(images, stem)}}

\* lines 160-163: the labels of the original images that exist
OriginalLabels(labels, original_images) ==
  {PathStem(n) \o ".txt" :
     n \in {x \in original_images : (PathStem(x) \o ".txt") \in FileNames(labels)}}

\* find_original_files for one value of original_images, as paths
OriginalFiles(labels, original_images) ==
  {ImagePath(n) : n \in original_images}
  \cup {LabelPath(n) : n \in OriginalLabels(labels, original_images)}

\* find_files_to_delete: the values it can return.  The list is taken as
\* the set of its paths: neither the order nor a path listed twice changes
\* what is deleted.
find_files_to_delete(keep_original, images, labels, split) ==
  IF keep_original
  THEN {SplitFiles(images, labels, split)}
  ELSE {OriginalFiles(labels, original_images) :
          original_images \in OriginalImageChoices(images, split)}

----------------------------------------------------------------------------
(* State.                                                                  *)

VARIABLES
  pc,           \* the position of the program
  self,         \* the fields of the YOLOImageSplitter object
  img,          \* [width, height] of the image read, or None
  regions,      \* the value of calculate_split_regions
  conv,         \* the arguments, locals and result of one
                \* convert_bbox_to_region call, or None
  image_path,   \* [stem, suffix] of the image being split
  image_file,   \* what the image file decodes to: [width, height], or None
  label_file,   \* the lines of the label file, or None when there is none
  annotations,  \* the <<class_id, bbox>> read from the label file
  ri,           \* the index in regions of the region of the loop of line 308
  tile,         \* the locals of the loop body, or None
  split_count,  \* the local counter of tiles
  out_images,   \* the files of out_images_dir, each [name, content]
  out_labels,   \* the files of out_labels_dir
  export_images, \* the files of self.export_images_dir
  export_labels, \* the files of self.export_labels_dir
  ret,          \* [value |-> v] once split_image_and_labels has returned v,
                \* [exception |-> e] once it has raised e, None before
  dirs,         \* the directories that exist
  images_dir,   \* the files of root_dir/images, each [name, content]
  labels_dir,   \* the files of root_dir/labels
  image_files,  \* the sorted names of the images process() collected
  idx,          \* the position of process() in image_files
  cleaner,      \* the fields of the SplitYOLOCleaner object, or None
  split_images, \* the value of identify_split_images
  backup_images, \* the files of backup_dir/images
  backup_labels, \* the files of backup_dir/labels
  args,         \* the options of the cleanup command line, or None
  cleanups,     \* how many times the cleanup has been run again
  writes,       \* the tiles written so far, each [image, label, lines, call]
                \* (call: the position in image_files of the image)
  write_fault   \* what the output directories refuse: "none", "image"
                \* (cv2.imwrite cannot write) or "label" (open() raises)

\* the state of one split_image_and_labels call
splitVars == <<image_path, image_file, label_file, annotations, ri, tile,
               split_count, out_images, out_labels, export_images,
               export_labels, ret>>

\* the dataset directory and the run of process() over it
dataVars == <<dirs, images_dir, labels_dir, image_files, idx>>

\* the state of the cleaner
mainVars == <<args, cleanups>>

cleanVars == <<cleaner, split_images, backup_images, backup_labels, mainVars>>

\* the writes of tiles and the state of the output directories
ioVars == <<writes, write_fault>>

vars == <<pc, self, img, regions, conv, splitVars, dataVars, cleanVars, ioVars>>

\* overlap_ratio values, in hundredths (validate_inputs admits 0 .. 0.5)
RatioPercents == {0, 10, 25, 29, 30, 50}

MaxSide == 10

\* image sides: every small one, and the 100 of the documented scenarios
Sides == (1 .. MaxSide) \cup {100}

\* __init__: the fields and the counters; output_dir and export_dir are
\* TRUE for a directory given, FALSE for None (setup_export_dir sets
\* export_images_dir and export_labels_dir when export_dir is given), and
\* output_path and export_path are the paths given, "" for None
YOLOImageSplitter(percent, output_dir, overwrite, keep_original, generate_center, require_full_bbox, export_dir) ==
  [overlap_ratio |-> Dec(percent, 100),
   root_dir |-> "root",
   output_path |-> IF output_dir THEN "out" ELSE "",
   export_path |-> IF export_dir THEN "export" ELSE "",
   output_dir |-> output_dir,
   overwrite |-> overwrite,
   keep_original |-> keep_original,
   generate_center |-> generate_center,
   require_full_bbox |-> require_full_bbox,
   export_dir |-> export_dir,
   total_images |-> 0, total_split |-> 0,
   total_new_images |-> 0, total_new_annotations |-> 0]

\* no split_image_and_labels call is under way
NoSplitCall ==
  /\ image_path = None /\ image_file = None /\ label_file = None
  /\ annotations = <<>> /\ ri = 0 /\ tile = None /\ split_count = 0
  /\ out_images = {} /\ out_labels = {}
  /\ export_images = {} /\ export_labels = {}
  /\ ret = None

\* no dataset directory, no process() under way
NoDataset ==
  /\ dirs = {} /\ images_dir = {} /\ labels_dir = {}
  /\ image_files = <<>> /\ idx = 0

\* no cleaner
NoCleaner ==
  /\ cleaner = None /\ split_images = {}
  /\ backup_images = {} /\ backup_labels = {}
  /\ args = None /\ cleanups = 0

\* no tile written, output directories that take every write
NoWrites == writes = <<>> /\ write_fault = "none"

----------------------------------------------------------------------------
(* calculate_split_regions applied to every size and configuration.        *)

InitRegions ==
  /\ pc = "calculate"
  /\ self \in {YOLOImageSplitter(p, TRUE, FALSE, TRUE, c, FALSE, FALSE) :
                 p \in RatioPercents, c \in BOOLEAN}
  /\ img \in [width : Sides, height : Sides]
  /\ regions = <<>>
  /\ conv = None
  /\ NoSplitCall
  /\ NoDataset
  /\ NoCleaner
  /\ NoWrites

CalculateSplitRegions ==
  /\ pc = "calculate"
  /\ regions' = calculate_split_regions(img.width, img.height,
                                        self.overlap_ratio, self.generate_center)
  /\ pc' = "calculated"
  /\ UNCHANGED <<dataVars, cleanVars, ioVars>>
  /\ UNCHANGED <<self, img, conv, splitVars>>

NextRegions == CalculateSplitRegions

SpecRegions == InitRegions /\ [][NextRegions]_vars


----------------------------------------------------------------------------
(* convert_bbox_to_region applied to boxes of every kind against the       *)
(* regions of an image.                                                    *)

\* float(x) of line 301 for a label field written with three decimals
Norm(n) == Dec(n, 1000)

\* <<x_center, width>> and <<y_center, height>> of the label lines, in
\* thousandths: inside one tile, across two tiles, at and just under the
\* 10% boundary of top_left, outside top_left, touching it, and empty
BoxXs == {<<500, 40>>, <<40, 70>>, <<590, 100>>, <<595, 110>>,
          <<925, 50>>, <<600, 100>>, <<500, 0>>, <<500, 200>>}
BoxYs == {<<300, 100>>, <<500, 40>>, <<925, 50>>, <<300, 0>>, <<590, 100>>}

BBoxes == { <<Norm(x[1]), Norm(y[1]), Norm(x[2]), Norm(y[2])>> :
              x \in BoxXs, y \in BoxYs }

ConvertImages == {[width |-> 100, height |-> 100], [width |-> 64, height |-> 48]}

\* The arguments, the locals and the result of one call.
ConvLocals(bbox, img_width, img_height, region, box, c) ==
  [bbox |-> bbox, region |-> region, box |-> box, clipped |-> c,
   area_ratio |-> IF NoIntersection(c) THEN None
                  ELSE AreaRatio(bbox, img_width, img_height, c),
   ret |-> convert_bbox_to_region(bbox, img_width, img_height,
                                  region[2], region[3], region[4], region[5])]

ConvBox(bbox, img_width, img_height, region, box) ==
  ConvLocals(bbox, img_width, img_height, region, box,
             ClipBox(box, region[2], region[3], region[4], region[5]))

ConvCall(bbox, img_width, img_height, region) ==
  ConvBox(bbox, img_width, img_height, region,
          PixelBox(bbox, img_width, img_height))

\* the state of split_image_and_labels after line 305
InitConvert ==
  /\ pc = "convert"
  /\ self = YOLOImageSplitter(10, TRUE, FALSE, TRUE, TRUE, FALSE, FALSE)
  /\ img \in ConvertImages
  /\ regions = calculate_split_regions(img.width, img.height,
                                       self.overlap_ratio, self.generate_center)
  /\ conv = None
  /\ NoSplitCall
  /\ NoDataset
  /\ NoCleaner
  /\ NoWrites

\* lines 322-325: one annotation against one region
ConvertBBoxToRegion ==
  /\ pc = "convert"
  /\ \E i \in 1 .. Len(regions), bbox \in BBoxes :
       conv' = ConvCall(bbox, img.width, img.height, regions[i])
  /\ pc' = "converted"
  /\ UNCHANGED <<dataVars, cleanVars, ioVars>>
  /\ UNCHANGED <<self, img, regions, splitVars>>

NextConvert == ConvertBBoxToRegion

SpecConvert == InitConvert /\ [][NextConvert]_vars

----------------------------------------------------------------------------
(* split_image_and_labels: one image and its label file.                   *)

\* line 300-301: <<class_id, bbox>> of the fields of a line
ParseLine(parts) ==
  << IntOf(parts[1]),
     << FloatOf(parts[2]), FloatOf(parts[3]), FloatOf(parts[4]), FloatOf(parts[5]) >> >>

\* lines 299-301 raise ValueError on these fields
PartsRaise(parts) ==
  /\ Len(parts) >= 5
  /\ ~IsInt(parts[1]) \/ \E k \in 2 .. 5 : ~IsFloat(parts[k])

\* reading the label file raises ValueError: some line does
LabelRaises(file) ==
  IF file = None THEN FALSE
  ELSE \E i \in 1 .. Len(file.lines) : PartsRaise(Split(file.lines[i]))

\* lines 298-302 for one line: nothing for a line of fewer than five fields
LineAnnotations(parts) == IF Len(parts) >= 5 THEN <<ParseLine(parts)>> ELSE <<>>

\* lines 297-302: the annotations of the lines from the i-th on
RECURSIVE ReadAnnotations(_, _)
ReadAnnotations(lines, i) ==
  IF i > Len(lines) THEN <<>>
  ELSE LineAnnotations(Split(lines[i])) \o ReadAnnotations(lines, i + 1)

\* lines 294-302: no label file gives no annotation
LabelAnnotations(file) ==
  IF file = None THEN <<>> ELSE ReadAnnotations(file.lines, 1)

\* line 310: the size of img[y1:y2, x1:x2]
CropSize(img_width, img_height, region) ==
  [width |-> IMax(0, IMin(region[4], img_width) - IMin(region[2], img_width)),
   height |-> IMax(0, IMin(region[5], img_height) - IMin(region[3], img_height))]

\* an image without pixels
EmptyImage(image) == image.width = 0 \/ image.height = 0

\* lines 322-325: the results of convert_bbox_to_region for the annotations
\* from the i-th on
RECURSIVE ConvertFrom(_, _, _, _, _)
ConvertFrom(annots, img_width, img_height, region, i) ==
  IF i > Len(annots) THEN <<>>
  ELSE << convert_bbox_to_region(annots[i][2], img_width, img_height,
                                 region[2], region[3], region[4], region[5]) >>
       \o ConvertFrom(annots, img_width, img_height, region, i + 1)

\* lines 326-327: the valid annotations with their new boxes
RECURSIVE ValidFrom(_, _, _)
ValidFrom(annots, results, i) ==
  IF i > Len(annots) THEN <<>>
  ELSE (IF results[i][1] THEN << <<annots[i][1], results[i][2]>> >> ELSE <<>>)
       \o ValidFrom(annots, results, i + 1)

\* lines 328-329: some valid annotation is full
HasFullBBox(results) == \E i \in 1 .. Len(results) : results[i][1] /\ results[i][3]

\* line 313: f"{image_name}_{region_name}{image_ext}"
NewImageName(path, region_name) == path.stem \o "_" \o region_name \o path.suffix

\* line 314: f"{image_name}_{region_name}.txt"
NewLabelName(path, region_name) == path.stem \o "_" \o region_name \o ".txt"

\* lines 310-330: the locals of the loop body for a region
TileLocals(path, region, cropped_img, annots, results) ==
  [region |-> region,
   cropped_img |-> cropped_img,
   new_image_name |-> NewImageName(path, region[1]),
   new_label_name |-> NewLabelName(path, region[1]),
   new_annotations |-> ValidFrom(annots, results, 1),
   has_full_bbox |-> HasFullBBox(results)]

\* line 341 with the class_id after the box
LabelLineClassLast(annotation) ==
  Format6(annotation[2][1]) \o " " \o Format6(annotation[2][2]) \o " "
  \o Format6(annotation[2][3]) \o " " \o Format6(annotation[2][4]) \o " "
  \o IntStr(annotation[1]) \o "\n"

\* line 341: the line written for an annotation
LabelLine(annotation) ==
  IntStr(annotation[1]) \o " " \o Format6(annotation[2][1]) \o " "
  \o Format6(annotation[2][2]) \o " " \o Format6(annotation[2][3]) \o " "
  \o Format6(annotation[2][4]) \o "\n"

\* lines 339-342: the lines of the label file of a tile
RECURSIVE LabelLines(_, _)
LabelLines(new_annotations, i) ==
  IF i > Len(new_annotations) THEN <<>>
  ELSE <<LabelLine(new_annotations[i])>> \o LabelLines(new_annotations, i + 1)

\* a directory after a file is written (or copied) under a name
WriteFile(dir, name, content) ==
  {f \in dir : f.name # name} \cup {[name |-> name, content |-> content]}

\* line 332 skipping only a tile that has annotations
SkipsTileWithAnnotations ==
  self.require_full_bbox /\ ~tile.has_full_bbox /\ tile.new_annotations # <<>>

\* line 332
SkipsTile == self.require_full_bbox /\ ~tile.has_full_bbox

SplitImagePaths == {[stem |-> "frame", suffix |-> ".jpg"]}

\* what cv2.imread gives: images of the documented size, of another size,
\* one pixel wide, one pixel high, and a file that does not decode
SplitImageFiles ==
  {[width |-> 100, height |-> 100], [width |-> 64, height |-> 48],
   [width |-> 1, height |-> 3], [width |-> 3, height |-> 1], None}

\* label lines: a box in the middle of the image, a box across the left and
\* right quadrants, a box inside top_left, a box in the bottom right
\* corner, a line of three fields, a line whose class is not a number and a
\* line with a coordinate that is not a number
LineMiddle == "0 0.5 0.5 0.04 0.04"
LineAcross == "1 0.5 0.2 0.2 0.1"
LineTopLeft == "2 0.04 0.3 0.07 0.1"
LineCorner == "0 0.925 0.925 0.05 0.05"
LineShort == "0 0.5 0.5"
LineBadClass == "x 0.5 0.5 0.1 0.1"
LineBadCoord == "0 0.5 abc 0.1 0.1"

\* lines that int() and float() read: exponents and a sign, a digit
\* separator in the class after a form feed and before a tab, a center that
\* is not a number, an infinite width
LineExponent == "1 2.5e-1 5E-1 4e-02 +.04"
LineSeparated == "\f1_0\t0.5 0.5 0.0_4 0.04"
LineNaN == "3 nan 0.5 0.1 0.1"
LineInfinite == "4 0.5 0.5 inf 0.1"

SplitLabelFiles ==
  {None} \cup
  {[lines |-> l] : l \in {<<>>, <<LineMiddle>>, <<LineAcross>>, <<LineTopLeft>>,
                          <<LineMiddle, LineAcross>>, <<LineAcross, LineCorner>>,
                          <<LineCorner, LineShort, LineMiddle>>,
                          <<LineBadClass>>, <<LineMiddle, LineBadCoord>>,
                          <<LineExponent, LineSeparated>>, <<LineNaN>>,
                          <<LineInfinite, LineNaN>>}}

\* the call of line 431 on an image of the dataset
InitSplit ==
  /\ pc = "split"
  /\ self \in {YOLOImageSplitter(10, TRUE, FALSE, TRUE, c, f, e) : c \in BOOLEAN, f \in BOOLEAN, e \in BOOLEAN}
  /\ img = None
  /\ regions = <<>>
  /\ conv = None
  /\ image_path \in SplitImagePaths
  /\ image_file \in SplitImageFiles
  /\ label_file \in SplitLabelFiles
  /\ annotations = <<>> /\ ri = 0 /\ tile = None /\ split_count = 0
  /\ out_images = {} /\ out_labels = {}
  /\ export_images = {} /\ export_labels = {}
  /\ ret = None
  /\ NoDataset
  /\ NoCleaner
  /\ NoWrites

\* lines 284-287: the image cannot be read
ImreadFails ==
  /\ pc = "split"
  /\ image_file = None
  /\ ret' = [value |-> 0]
  /\ pc' = "returned"
  /\ UNCHANGED <<dataVars, cleanVars, ioVars>>
  /\ UNCHANGED <<self, img, regions, conv, image_path, image_file, label_file,
                 annotations, ri, tile, split_count, out_images, out_labels,
                 export_images, export_labels>>

\* lines 284-291: the image is read
ReadImage ==
  /\ pc = "split"
  /\ image_file # None
  /\ img' = image_file
  /\ pc' = "labels"
  /\ UNCHANGED <<dataVars, cleanVars, ioVars>>
  /\ UNCHANGED <<self, regions, conv, splitVars>>

\* lines 294-301: a line of five fields or more does not parse
ReadLabelsRaises ==
  /\ pc = "labels"
  /\ LabelRaises(label_file)
  /\ ret' = [exception |-> "ValueError"]
  /\ pc' = "raised"
  /\ UNCHANGED <<dataVars, cleanVars, ioVars>>
  /\ UNCHANGED <<self, img, regions, conv, image_path, image_file, label_file,
                 annotations, ri, tile, split_count, out_images, out_labels,
                 export_images, export_labels>>

\* lines 293-307: the annotations are read and the regions computed
ReadLabels ==
  /\ pc = "labels"
  /\ ~LabelRaises(label_file)
  /\ annotations' = LabelAnnotations(label_file)
  /\ regions' = calculate_split_regions(img.width, img.height,
                                        self.overlap_ratio, self.generate_center)
  /\ split_count' = 0
  /\ ri' = 1
  /\ pc' = "region"
  /\ UNCHANGED <<dataVars, cleanVars, ioVars>>
  /\ UNCHANGED <<self, img, conv, image_path, image_file, label_file, tile,
                 out_images, out_labels, export_images, export_labels, ret>>

\* lines 322-325: convert_bbox_to_region raises for some annotation and the
\* region
TileRaises(region) ==
  \E i \in 1 .. Len(annotations) :
    ConvertRaises(annotations[i][2], img.width, img.height,
                  region[2], region[3], region[4], region[5])

\* lines 308-325 when convert_bbox_to_region raises: the exception leaves
\* split_image_and_labels
CropAndConvertRaises ==
  /\ pc = "region"
  /\ ri <= Len(regions)
  /\ TileRaises(regions[ri])
  /\ ret' = [exception |-> "ZeroDivisionError"]
  /\ pc' = "raised"
  /\ UNCHANGED <<dataVars, cleanVars, ioVars>>
  /\ UNCHANGED <<self, img, regions, conv, image_path, image_file, label_file,
                 annotations, ri, tile, split_count, out_images, out_labels,
                 export_images, export_labels>>

\* lines 308-330: the crop, the names and the annotations of the next region
CropAndConvert ==
  /\ pc = "region"
  /\ ri <= Len(regions)
  /\ ~TileRaises(regions[ri])
  /\ tile' = TileLocals(image_path, regions[ri],
                        CropSize(img.width, img.height, regions[ri]),
                        annotations,
                        ConvertFrom(annotations, img.width, img.height, regions[ri], 1))
  /\ pc' = "gate"
  /\ UNCHANGED <<dataVars, cleanVars, ioVars>>
  /\ UNCHANGED <<self, img, regions, conv, image_path, image_file, label_file,
                 annotations, ri, split_count, out_images, out_labels,
                 export_images, export_labels, ret>>

\* lines 332-333: continue
SkipTile ==
  /\ pc = "gate"
  /\ SkipsTile
  /\ ri' = ri + 1
  /\ pc' = "region"
  /\ UNCHANGED <<dataVars, cleanVars, ioVars>>
  /\ UNCHANGED <<self, img, regions, conv, image_path, image_file, label_file,
                 annotations, tile, split_count, out_images, out_labels,
                 export_images, export_labels, ret>>

\* line 336 on a crop without pixels: cv2.imwrite raises cv2.error (its
\* assertion !_img.empty() fails)
ImwriteRaises ==
  /\ pc = "gate"
  /\ ~SkipsTile
  /\ EmptyImage(tile.cropped_img)
  /\ ret' = [exception |-> "cv2.error"]
  /\ pc' = "raised"
  /\ UNCHANGED <<dataVars, cleanVars, ioVars>>
  /\ UNCHANGED <<self, img, regions, conv, image_path, image_file, label_file,
                 annotations, ri, tile, split_count, out_images, out_labels,
                 export_images, export_labels>>

\* lines 108-109: without an output directory out_images_dir is images_dir
\* and out_labels_dir is labels_dir, so a write to one is a write to the other
SourceDir(source, out) == IF self.output_dir THEN source ELSE out

\* the record of a tile written
TileWrite(t) ==
  [image |-> t.new_image_name, label |-> t.new_label_name,
   lines |-> Len(t.new_annotations), call |-> idx]

\* lines 348-356: the copies to the export directory, each in the place of
\* a file of its name; copy2 of a tile image that does not exist raises and
\* the except clause of line 355 ends the copies
ExportCopies(images, labels) ==
  IF ~self.export_dir
  THEN UNCHANGED <<export_images, export_labels>>
  ELSE IF \E f \in images : f.name = tile.new_image_name
  THEN /\ export_images' =
            {f \in export_images : f.name # tile.new_image_name}
            \cup {f \in images : f.name = tile.new_image_name}
       /\ export_labels' =
            WriteFile(export_labels, tile.new_label_name,
                      LabelLines(tile.new_annotations, 1))
  ELSE UNCHANGED <<export_images, export_labels>>

\* lines 336-356: the tile and its label file are written, counted and
\* exported
SaveTile ==
  /\ pc = "gate"
  /\ ~SkipsTile
  /\ ~EmptyImage(tile.cropped_img)
  /\ write_fault = "none"
  /\ out_images' = WriteFile(out_images, tile.new_image_name, tile.cropped_img)
  /\ out_labels' = WriteFile(out_labels, tile.new_label_name,
                             LabelLines(tile.new_annotations, 1))
  /\ images_dir' = SourceDir(images_dir, out_images')
  /\ labels_dir' = SourceDir(labels_dir, out_labels')
  /\ writes' = Append(writes, TileWrite(tile))
  /\ split_count' = split_count + 1
  /\ self' = [self EXCEPT !.total_new_annotations = @ + Len(tile.new_annotations)]
  /\ IF self.export_dir
     THEN /\ export_images' = WriteFile(export_images, tile.new_image_name,
                                        tile.cropped_img)
          /\ export_labels' = WriteFile(export_labels, tile.new_label_name,
                                        LabelLines(tile.new_annotations, 1))
     ELSE UNCHANGED <<export_images, export_labels>>
  /\ ri' = ri + 1
  /\ pc' = "region"
  /\ UNCHANGED <<dirs, image_files, idx, write_fault, cleanVars>>
  /\ UNCHANGED <<img, regions, conv, image_path, image_file, label_file,
                 annotations, tile, ret>>

\* lines 336-356 when the tile image cannot be written: cv2.imwrite returns
\* False, which line 336 drops; the label file is written and the tile is
\* counted
ImwriteFails ==
  /\ pc = "gate"
  /\ ~SkipsTile
  /\ ~EmptyImage(tile.cropped_img)
  /\ write_fault = "image"
  /\ out_labels' = WriteFile(out_labels, tile.new_label_name,
                             LabelLines(tile.new_annotations, 1))
  /\ labels_dir' = SourceDir(labels_dir, out_labels')
  /\ split_count' = split_count + 1
  /\ self' = [self EXCEPT !.total_new_annotations = @ + Len(tile.new_annotations)]
  /\ ExportCopies(out_images, out_labels')
  /\ ri' = ri + 1
  /\ pc' = "region"
  /\ UNCHANGED <<dirs, images_dir, image_files, idx, ioVars, cleanVars>>
  /\ UNCHANGED <<img, regions, conv, image_path, image_file, label_file,
                 annotations, tile, out_images, ret>>

\* lines 336-339 when the label file cannot be opened for writing: the tile
\* image is written and open() raises OSError
OpenRaises ==
  /\ pc = "gate"
  /\ ~SkipsTile
  /\ ~EmptyImage(tile.cropped_img)
  /\ write_fault = "label"
  /\ out_images' = WriteFile(out_images, tile.new_image_name, tile.cropped_img)
  /\ images_dir' = SourceDir(images_dir, out_images')
  /\ ret' = [exception |-> "OSError"]
  /\ pc' = "raised"
  /\ UNCHANGED <<dirs, labels_dir, image_files, idx, ioVars, cleanVars>>
  /\ UNCHANGED <<self, img, regions, conv, image_path, image_file, label_file,
                 annotations, ri, tile, split_count, out_labels,
                 export_images, export_labels>>

\* line 358: self.total_new_images += split_count
NewImagesTotal == self.total_new_images + split_count

\* lines 358-359
ReturnSplitCount ==
  /\ pc = "region"
  /\ ri > Len(regions)
  /\ self' = [self EXCEPT !.total_new_images = NewImagesTotal]
  /\ ret' = [value |-> split_count]
  /\ pc' = "returned"
  /\ UNCHANGED <<dataVars, cleanVars, ioVars>>
  /\ UNCHANGED <<img, regions, conv, image_path, image_file, label_file,
                 annotations, ri, tile, split_count, out_images, out_labels,
                 export_images, export_labels>>

NextSplit ==
  \/ ImreadFails
  \/ ReadImage
  \/ ReadLabelsRaises
  \/ ReadLabels
  \/ CropAndConvertRaises
  \/ CropAndConvert
  \/ SkipTile
  \/ ImwriteRaises
  \/ SaveTile
  \/ ReturnSplitCount

SpecSplit == InitSplit /\ [][NextSplit]_vars

----------------------------------------------------------------------------
(* split_image_and_labels on annotations inside images of many sizes, for  *)
(* every admitted kind of overlap.                                         *)

\* overlap ratios of both ends and inside [0, 0.5], in hundredths
CoverPercents == {0, 10, 25, 50}

\* images of two pixels and more on each side
CoverImages ==
  {[width |-> 2, height |-> 2], [width |-> 3, height |-> 2],
   [width |-> 5, height |-> 7], [width |-> 64, height |-> 48],
   [width |-> 100, height |-> 100]}

\* label lines of distinct classes: boxes inside the image (in the middle,
\* the whole image, at the left edge, wide, in the corner, a box thinner
\* than the spacing of the floats at its position, a box whose area is
\* less than the least binary64 number), a box without height and a box
\* that leaves the image
LineWhole == "1 0.5 0.5 1.0 1.0"
LineLeftEdge == "2 0.04 0.5 0.07 0.04"
LineWide == "3 0.5 0.25 0.9 0.1"
LineLastCorner == "4 0.95 0.95 0.1 0.1"
LineHairline == "5 0.5 0.5 0.000000000000000001 0.1"
LineFlat == "6 0.5 0.5 0.2 0.0"
LineUnderflow == "8 1e-170 1e-170 1e-170 1e-170"
LineOutside == "7 0.98 0.5 0.1 0.1"

CoverLabelFiles ==
  {[lines |-> l] : l \in {<<LineMiddle>>, <<LineWhole>>, <<LineLeftEdge>>,
                          <<LineWide, LineLastCorner>>, <<LineHairline>>,
                          <<LineUnderflow>>, <<LineFlat>>, <<LineOutside>>}}

\* the call of line 431 on an image with a label file
InitCover ==
  /\ pc = "split"
  /\ self \in {YOLOImageSplitter(p, TRUE, FALSE, TRUE, c, f, FALSE) :
                 p \in CoverPercents, c \in BOOLEAN, f \in BOOLEAN}
  /\ img = None
  /\ regions = <<>>
  /\ conv = None
  /\ image_path \in SplitImagePaths
  /\ image_file \in CoverImages
  /\ label_file \in CoverLabelFiles
  /\ annotations = <<>> /\ ri = 0 /\ tile = None /\ split_count = 0
  /\ out_images = {} /\ out_labels = {}
  /\ export_images = {} /\ export_labels = {}
  /\ ret = None
  /\ NoDataset
  /\ NoCleaner
  /\ NoWrites

NextCover ==
  \/ ReadImage
  \/ ReadLabels
  \/ CropAndConvert
  \/ SkipTile
  \/ SaveTile
  \/ ReturnSplitCount

SpecCover == InitCover /\ [][NextCover]_vars

----------------------------------------------------------------------------
(* split_image_and_labels on output directories that may refuse a write.   *)

WriteFaults == {"none", "image", "label"}

\* the call of line 431 with output directories in one of the three states
InitWrite ==
  /\ pc = "split"
  /\ self \in {YOLOImageSplitter(10, TRUE, FALSE, TRUE, TRUE, f, e) : f \in BOOLEAN, e \in BOOLEAN}
  /\ img = None
  /\ regions = <<>>
  /\ conv = None
  /\ image_path \in SplitImagePaths
  /\ image_file \in SplitImageFiles
  /\ label_file \in {None, [lines |-> <<LineMiddle>>], [lines |-> <<LineAcross, LineCorner>>],
                     [lines |-> <<LineMiddle, LineBadCoord>>]}
  /\ annotations = <<>> /\ ri = 0 /\ tile = None /\ split_count = 0
  /\ out_images = {} /\ out_labels = {}
  /\ export_images = {} /\ export_labels = {}
  /\ ret = None
  /\ NoDataset
  /\ NoCleaner
  /\ writes = <<>>
  /\ write_fault \in WriteFaults

NextWrite ==
  \/ ImreadFails
  \/ ReadImage
  \/ ReadLabelsRaises
  \/ ReadLabels
  \/ CropAndConvert
  \/ SkipTile
  \/ ImwriteRaises
  \/ SaveTile
  \/ ImwriteFails
  \/ OpenRaises
  \/ ReturnSplitCount

SpecWrite == InitWrite /\ [][NextWrite]_vars

----------------------------------------------------------------------------
(* process(): a whole run over a dataset directory.                        *)

\* the characters of the file names, in code point order
CharOrder == ".0123456789ABCDEFGHIJKLMNOPQRSTUVWXYZ_abcdefghijklmnopqrstuvwxyz"

CharRank(ch) == CHOOSE i \in 1 .. Len(CharOrder) : Char(CharOrder, i) = ch

\* a < b for two names that agree before position i
RECURSIVE StrLessFrom(_, _, _)
StrLessFrom(a, b, i) ==
  IF i > Len(b) THEN FALSE
  ELSE IF i > Len(a) THEN TRUE
  ELSE IF Char(a, i) = Char(b, i) THEN StrLessFrom(a, b, i + 1)
  ELSE CharRank(Char(a, i)) < CharRank(Char(b, i))

StrLess(a, b) == StrLessFrom(a, b, 1)

Least(names) == CHOOSE n \in names : \A o \in names \ {n} : StrLess(n, o)

\* line 409: sorted() of the paths of one directory
RECURSIVE Sorted(_)
Sorted(names) ==
  IF names = {} THEN <<>>
  ELSE <<Least(names)>> \o Sorted(names \ {Least(names)})

\* lines 78-80 without the test of the ratio
validate_inputs_AnyRatio ==
  /\ {"root", "root/images", "root/labels"} \subseteq dirs
  /\ ~(self.output_dir /\ self.output_path \in dirs /\ ~self.overwrite)
  /\ ~(self.export_dir /\ self.export_path \in dirs /\ ~self.overwrite)

\* lines 64-91
validate_inputs ==
  /\ {"root", "root/images", "root/labels"} \subseteq dirs
  /\ FLe(FZero, self.overlap_ratio) /\ FLe(self.overlap_ratio, Dec(1, 2))
  /\ ~(self.output_dir /\ self.output_path \in dirs /\ ~self.overwrite)
  /\ ~(self.export_dir /\ self.export_path \in dirs /\ ~self.overwrite)

\* a directory with its images and labels directories
Tree(path) == {path, path \o "/images", path \o "/labels"}

\* lines 93-131: the directories after setup_output_dirs and setup_export_dir
SetupDirs ==
  dirs \cup (IF self.output_dir THEN Tree(self.output_path) ELSE {})
       \cup (IF self.export_dir THEN Tree(self.export_path) ELSE {})

\* lines 100-102 and 120-122: shutil.rmtree is called on the dataset
\* directory itself, given as the output or the export directory
RootRemoved ==
  /\ self.overwrite
  /\ \/ self.output_dir /\ self.output_path = self.root_dir
     \/ self.export_dir /\ self.export_path = self.root_dir

\* lines 392 and 413: the images of images_dir
SourceImages == {f \in images_dir : IsSupportedImage(f.name)}

\* line 396: the label files of labels_dir
SourceLabels ==
  {f \in labels_dir : /\ LowerIsWritten(PathSuffix(f.name))
                      /\ Lower(PathSuffix(f.name)) = ".txt"}

\* lines 388-397: what is copied into a directory of the output tree
CopiedToOutput(files) ==
  IF self.keep_original /\ self.output_dir THEN files ELSE {}

\* lines 399-406: what is copied into a directory of the export tree
CopiedToExport(files) ==
  IF self.keep_original /\ self.export_dir THEN files ELSE {}

\* lines 376-406: the output directory is new or emptied by rmtree, and
\* without one the output directories are images_dir and labels_dir
SetupAndCopy ==
  /\ dirs' = SetupDirs
  /\ out_images' = IF self.output_dir THEN CopiedToOutput(SourceImages) ELSE images_dir
  /\ out_labels' = IF self.output_dir THEN CopiedToOutput(SourceLabels) ELSE labels_dir
  /\ export_images' = CopiedToExport(SourceImages)
  /\ export_labels' = CopiedToExport(SourceLabels)

\* lines 363-364: validate_inputs() is False
Reject ==
  /\ pc = "process"
  /\ ~validate_inputs
  /\ pc' = "rejected"
  /\ UNCHANGED <<self, img, regions, conv, splitVars, dataVars, cleanVars, ioVars>>

\* lines 363-419 when the output or the export directory is the dataset
\* directory and overwrite is set: rmtree removes the dataset, the
\* directories are made again and no image is found
StartRemovesDataset ==
  /\ pc = "process"
  /\ validate_inputs
  /\ RootRemoved
  /\ dirs' = SetupDirs
  /\ images_dir' = {} /\ labels_dir' = {}
  /\ out_images' = {} /\ out_labels' = {}
  /\ export_images' = {} /\ export_labels' = {}
  /\ pc' = "no_images"
  /\ UNCHANGED <<self, img, regions, conv, image_path, image_file, label_file,
                 annotations, ri, tile, split_count, ret>>
  /\ UNCHANGED <<image_files, idx, cleanVars, ioVars>>

\* lines 363-419: no image in images_dir
StartNoImages ==
  /\ pc = "process"
  /\ validate_inputs
  /\ ~RootRemoved
  /\ SourceImages = {}
  /\ SetupAndCopy
  /\ pc' = "no_images"
  /\ UNCHANGED <<self, img, regions, conv, image_path, image_file, label_file,
                 annotations, ri, tile, split_count, ret>>
  /\ UNCHANGED <<images_dir, labels_dir, image_files, idx, cleanVars, ioVars>>

\* lines 363-423: the directories are set up, the originals copied and the
\* images collected
Start ==
  /\ pc = "process"
  /\ validate_inputs
  /\ ~RootRemoved
  /\ SourceImages # {}
  /\ SetupAndCopy
  /\ image_files' = Sorted(FileNames(SourceImages))
  /\ self' = [self EXCEPT !.total_images = Cardinality(SourceImages)]
  /\ idx' = 1
  /\ pc' = "loop"
  /\ UNCHANGED <<img, regions, conv, image_path, image_file, label_file,
                 annotations, ri, tile, split_count, ret>>
  /\ UNCHANGED <<images_dir, labels_dir, cleanVars, ioVars>>

\* the content of the file of a directory
Content(dir, name) == (CHOOSE f \in dir : f.name = name).content

\* lines 295-296: the label file as split_image_and_labels opens it
OpenLabel(name) ==
  IF name \in FileNames(labels_dir)
  THEN [lines |-> Content(labels_dir, name)] ELSE None

\* lines 426-433: the call on the next image
CallSplit ==
  /\ pc = "loop"
  /\ idx <= Len(image_files)
  /\ image_path' = [stem |-> PathStem(image_files[idx]),
                    suffix |-> PathSuffix(image_files[idx])]
  /\ image_file' = Content(images_dir, image_files[idx])
  /\ label_file' = OpenLabel(PathStem(image_files[idx]) \o ".txt")
  /\ img' = None /\ regions' = <<>> /\ annotations' = <<>>
  /\ ri' = 0 /\ tile' = None /\ split_count' = 0 /\ ret' = None
  /\ pc' = "split"
  /\ UNCHANGED <<self, conv, out_images, out_labels, export_images,
                 export_labels, dataVars, cleanVars, ioVars>>

\* lines 435-436 counting every image
CountsImageAlways == TRUE

\* lines 435-436
CountsImage == ret.value > 0

\* lines 435-439: the image is counted and the loop moves on
AfterSplit ==
  /\ pc = "returned"
  /\ idx >= 1
  /\ self' = [self EXCEPT !.total_split = IF CountsImage THEN @ + 1 ELSE @]
  /\ idx' = idx + 1
  /\ pc' = "loop"
  /\ UNCHANGED <<img, regions, conv, splitVars, dirs, images_dir, labels_dir,
                 image_files, cleanVars, ioVars>>

\* lines 444-448: a directory without the originals
Unlinked(dir, names) == {f \in dir : f.name \notin names}

OriginalLabelNames == {PathStem(image_files[i]) \o ".txt" : i \in 1 .. Len(image_files)}

\* lines 441-468: the originals are deleted when the run was in place
\* without keep_original, and process() returns
Finish ==
  /\ pc = "loop"
  /\ idx > Len(image_files)
  /\ IF ~self.keep_original /\ ~self.output_dir
     THEN /\ images_dir' = Unlinked(images_dir, {image_files[i] : i \in 1 .. Len(image_files)})
          /\ labels_dir' = Unlinked(labels_dir, OriginalLabelNames)
          /\ out_images' = images_dir'
          /\ out_labels' = labels_dir'
     ELSE UNCHANGED <<images_dir, labels_dir, out_images, out_labels>>
  /\ pc' = "done"
  /\ UNCHANGED <<self, img, regions, conv, image_path, image_file, label_file,
                 annotations, ri, tile, split_count, export_images,
                 export_labels, ret>>
  /\ UNCHANGED <<dirs, image_files, idx, cleanVars, ioVars>>

File(name, content) == [name |-> name, content |-> content]

SomeImage == [width |-> 8, height |-> 8]
SomeLabel == <<"0 0.500000 0.500000 0.250000 0.250000\n">>
Image100 == [width |-> 100, height |-> 100]
Image64 == [width |-> 64, height |-> 48]

\* dataset directories: one image, with a label file without an image and
\* files that are neither images nor labels; an image that does not decode
\* between two that do; an image next to a file that has the name of one
\* of its tiles; a label line that does not parse; no image; an image one
\* pixel wide; two images of one stem; nothing but an image that does not
\* decode
ProcessDatasets ==
  {[images |-> {File("a.jpg", Image100), File("readme.md", None)},
    labels |-> {File("a.txt", <<LineMiddle, LineAcross>>),
                File("orphan.txt", <<LineTopLeft>>),
                File("classes.names", <<"car">>)}],
   [images |-> {File("a.jpg", Image100), File("b.png", None), File("c.jpg", Image64)},
    labels |-> {File("a.txt", <<LineTopLeft>>),
                File("c.txt", <<LineAcross, LineCorner>>)}],
   [images |-> {File("a.jpg", Image100), File("a_top_left.jpg", Image64)},
    labels |-> {File("a.txt", <<LineTopLeft>>),
                File("a_top_left.txt", <<LineMiddle>>)}],
   [images |-> {File("a.jpg", Image100), File("b.jpg", Image100)},
    labels |-> {File("a.txt", <<LineMiddle>>), File("b.txt", <<LineBadClass>>)}],
   [images |-> {File("readme.md", None)}, labels |-> {}],
   [images |-> {File("a.jpg", [width |-> 1, height |-> 3]), File("b.jpg", Image100)},
    labels |-> {}],
   [images |-> {File("a.JPG", Image100), File("a.png", Image64)},
    labels |-> {File("a.txt", <<LineMiddle>>)}],
   [images |-> {File("b.png", None)}, labels |-> {File("b.txt", <<LineMiddle>>)}]}

\* overlap ratios of a run, in hundredths: one inside [0, 0.5], one above
\* and one below
ProcessPercents == {10, 60, -10}

ProcessConfigs ==
  {YOLOImageSplitter(p, o, w, k, TRUE, f, e) :
     p \in ProcessPercents, o \in BOOLEAN, w \in BOOLEAN, k \in BOOLEAN,
     f \in BOOLEAN, e \in BOOLEAN}

\* the dataset directory given as the output directory (-o root) or as the
\* export directory
OntoDatasetConfigs ==
  {[YOLOImageSplitter(10, TRUE, w, k, TRUE, FALSE, e) EXCEPT !.output_path = "root"] :
     w \in BOOLEAN, k \in BOOLEAN, e \in BOOLEAN}
  \cup {[YOLOImageSplitter(10, o, w, k, TRUE, FALSE, TRUE) EXCEPT !.export_path = "root"] :
          o \in BOOLEAN, w \in BOOLEAN, k \in BOOLEAN}

RootDirs == {"root", "root/images", "root/labels"}

\* the directories that exist before the run: the dataset, with or without
\* an output and an export directory of an earlier run, or a dataset with a
\* directory missing
ProcessDirs ==
  {RootDirs \cup o \cup e : o \in {{}, {"out", "out/images", "out/labels"}},
                            e \in {{}, {"export", "export/images", "export/labels"}}}
  \cup {{}, {"root"}, {"root", "root/images"}, {"root", "root/labels"}}

\* a splitter constructed on a dataset directory, process() called; the
\* output directories that refuse a write are those of a new output
\* directory
InitProcess ==
  /\ pc = "process"
  /\ self \in ProcessConfigs \cup OntoDatasetConfigs
  /\ dirs \in ProcessDirs
  /\ "out" \in dirs => self.output_dir /\ self.output_path = "out"
  /\ "export" \in dirs => self.export_dir /\ self.export_path = "export"
  /\ \E ds \in ProcessDatasets :
       /\ images_dir = IF "root/images" \in dirs THEN ds.images ELSE {}
       /\ labels_dir = IF "root/labels" \in dirs THEN ds.labels ELSE {}
  /\ out_images = IF "out" \in dirs THEN {File("old_center.jpg", SomeImage)} ELSE {}
  /\ out_labels = IF "out" \in dirs THEN {File("old_center.txt", SomeLabel)} ELSE {}
  /\ export_images = IF "export" \in dirs THEN {File("old_center.jpg", SomeImage)} ELSE {}
  /\ export_labels = {}
  /\ image_files = <<>> /\ idx = 0
  /\ img = None /\ regions = <<>> /\ conv = None
  /\ image_path = None /\ image_file = None /\ label_file = None
  /\ annotations = <<>> /\ ri = 0 /\ tile = None /\ split_count = 0
  /\ ret = None
  /\ NoCleaner
  /\ writes = <<>>
  /\ write_fault \in WriteFaults
  /\ write_fault # "none" =>
       self.output_dir /\ ~self.overwrite /\ ~self.keep_original /\ dirs = RootDirs

NextProcess ==
  \/ Reject
  \/ StartRemovesDataset
  \/ StartNoImages
  \/ Start
  \/ CallSplit
  \/ ImreadFails
  \/ ReadImage
  \/ ReadLabelsRaises
  \/ ReadLabels
  \/ CropAndConvert
  \/ SkipTile
  \/ ImwriteRaises
  \/ SaveTile
  \/ ImwriteFails
  \/ OpenRaises
  \/ ReturnSplitCount
  \/ AfterSplit
  \/ Finish

SpecProcess == InitProcess /\ [][NextProcess]_vars

----------------------------------------------------------------------------
(* split_image_and_labels called twice on one image with one configuration *)
(* and one output directory.                                               *)

RepeatLabels ==
  {<<LineMiddle>>, <<LineAcross, LineCorner, LineMiddle>>,
   <<LineCorner, LineShort, LineMiddle, LineTopLeft>>, <<"7 0.5 0.5 0.9 0.9", LineAcross>>}

\* the loop of line 426 over a list that names the image twice
InitRepeat ==
  /\ pc = "loop"
  /\ self \in {YOLOImageSplitter(10, TRUE, FALSE, FALSE, c, f, FALSE) : c \in BOOLEAN, f \in BOOLEAN}
  /\ dirs = RootDirs \cup {"out", "out/images", "out/labels"}
  /\ images_dir \in {{File("frame.jpg", i)} : i \in {Image100, Image64}}
  /\ labels_dir \in {{File("frame.txt", l)} : l \in RepeatLabels}
  /\ image_files = <<"frame.jpg", "frame.jpg">>
  /\ idx = 1
  /\ img = None /\ regions = <<>> /\ conv = None
  /\ NoSplitCall
  /\ NoCleaner
  /\ NoWrites

NextRepeat ==
  \/ CallSplit
  \/ ReadImage
  \/ ReadLabels
  \/ CropAndConvert
  \/ SkipTile
  \/ SaveTile
  \/ ReturnSplitCount
  \/ AfterSplit
  \/ Finish

SpecRepeat == InitRepeat /\ [][NextRepeat]_vars

----------------------------------------------------------------------------
(* The names the splitter gives to tiles, read back by the cleaner.        *)

NamingStems == {"frame", "a.b", "x_tl", "shot_top_left", "img_center", "IMG_0001", "_br"}

NamingExts == SUPPORTED_IMAGE_EXTS \cup {".JPG", ".Png"}

\* the loop of line 308 at some region of an image
InitNaming ==
  /\ pc = "name"
  /\ self = YOLOImageSplitter(10, FALSE, FALSE, TRUE, TRUE, FALSE, FALSE)
  /\ img = [width |-> 100, height |-> 100]
  /\ regions = calculate_split_regions(img.width, img.height,
                                       self.overlap_ratio, self.generate_center)
  /\ conv = None
  /\ image_path \in [stem : NamingStems, suffix : NamingExts]
  /\ image_file = img
  /\ label_file = None
  /\ annotations = <<>>
  /\ ri \in 1 .. Len(regions)
  /\ tile = None /\ split_count = 0
  /\ out_images = {} /\ out_labels = {}
  /\ export_images = {} /\ export_labels = {}
  /\ ret = None
  /\ NoDataset
  /\ NoCleaner
  /\ NoWrites

\* lines 313-314: the names of the tile and of its label file
NameTile ==
  /\ pc = "name"
  /\ tile' = [new_image_name |-> NewImageName(image_path, regions[ri][1]),
              new_label_name |-> NewLabelName(image_path, regions[ri][1])]
  /\ pc' = "named"
  /\ UNCHANGED <<self, img, regions, conv, image_path, image_file, label_file,
                 annotations, ri, split_count, out_images, out_labels,
                 export_images, export_labels, ret, dataVars, cleanVars, ioVars>>

\* cleaner lines 66-86 over a directory that holds the tile
IdentifyTile ==
  /\ pc = "named"
  /\ split_images' = identify_split_images({[name |-> tile.new_image_name,
                                             content |-> img]})
  /\ pc' = "identified"
  /\ UNCHANGED <<self, img, regions, conv, splitVars, dataVars, ioVars, cleaner,
                 backup_images, backup_labels, mainVars>>

NextNaming == NameTile \/ IdentifyTile

SpecNaming == InitNaming /\ [][NextNaming]_vars

----------------------------------------------------------------------------
(* SplitYOLOCleaner.cleanup() over a dataset directory.                    *)

\* __init__: backup_dir is TRUE for a directory given, FALSE for None
SplitYOLOCleaner(dry_run, backup_dir, keep_original) ==
  [dry_run |-> dry_run, backup_dir |-> backup_dir,
   keep_original |-> keep_original, files_to_delete |-> {}]

\* the files of the paths, as the directories hold them
FilesOf(paths, images, labels) ==
  {f \in images : ImagePath(f.name) \in paths}
  \cup {f \in labels : LabelPath(f.name) \in paths}

\* a directory after the files of the paths are unlinked or moved away
Without(dir, dirname, paths) ==
  {f \in dir : [dir |-> dirname, name |-> f.name] \notin paths}

\* a directory after files are moved into it, replacing those of their names
WithFiles(dir, files) ==
  {f \in dir : f.name \notin FileNames(files)} \cup files

\* the content of an image file and of a label file of the datasets below

ImageFiles(names) == {[name |-> n, content |-> SomeImage] : n \in names}
LabelFiles(names) == {[name |-> n, content |-> SomeLabel] : n \in names}

\* dataset directories: an image split in place with its originals kept,
\* with and without the labels; two originals of one stem; an original
\* whose own stem ends with a suffix; no tile; tiles without an original,
\* with upper case extensions and short suffixes; files that are not
\* images; nothing; tiles of one stem under two extensions
CleanDatasets ==
  {[images |-> {"a.jpg", "a_top_left.jpg", "a_top_right.jpg", "a_bottom_left.jpg",
                "a_bottom_right.jpg", "a_center.jpg", "c.png"},
    labels |-> {"a.txt", "a_top_left.txt", "a_top_right.txt", "a_bottom_left.txt",
                "a_bottom_right.txt", "a_center.txt", "c.txt"}],
   [images |-> {"a.jpg", "a_top_left.jpg", "a_bottom_right.jpg"},
    labels |-> {"a_top_left.txt"}],
   [images |-> {"a.jpg", "a.png", "a_top_left.jpg"},
    labels |-> {"a.txt"}],
   [images |-> {"x_tl.jpg", "x_tl_top_left.jpg", "x_tl_center.jpg"},
    labels |-> {"x_tl.txt", "x_tl_top_left.txt"}],
   [images |-> {"c.jpg", "d.png"},
    labels |-> {"c.txt"}],
   [images |-> {"b_center.JPG", "b_tl.png"},
    labels |-> {"b_center.txt", "b.txt"}],
   [images |-> {"a.jpg", "a_top_left.gif", "notes_tl.txt"},
    labels |-> {"a.txt", "a_top_left.txt"}],
   [images |-> {},
    labels |-> {}],
   [images |-> {"a.jpg", "a_br.jpg", "a_br.png"},
    labels |-> {"a_br.txt", "a.txt"}]}

\* a cleaner constructed on a dataset directory
InitClean ==
  /\ pc = "cleanup"
  /\ cleaner \in {SplitYOLOCleaner(d, b, k) : d \in BOOLEAN, b \in BOOLEAN, k \in BOOLEAN}
  /\ \E ds \in CleanDatasets :
       /\ images_dir = ImageFiles(ds.images)
       /\ labels_dir = LabelFiles(ds.labels)
  /\ dirs = {"root", "root/images", "root/labels"}
  /\ image_files = <<>> /\ idx = 0
  /\ split_images = {}
  /\ backup_images = {} /\ backup_labels = {}
  /\ args = None /\ cleanups = 0
  /\ self = None /\ img = None /\ regions = <<>> /\ conv = None
  /\ NoSplitCall
  /\ NoWrites

\* lines 181-186: preview() finds no tile
PreviewNoSplitImages ==
  /\ pc = "cleanup"
  /\ identify_split_images(images_dir) = {}
  /\ split_images' = {}
  /\ pc' = "previewed"
  /\ UNCHANGED <<self, img, regions, conv, splitVars, dataVars, ioVars, cleaner,
                 backup_images, backup_labels, mainVars>>

\* lines 181-215: preview() finds tiles and the files to delete
PreviewFiles ==
  /\ pc = "cleanup"
  /\ identify_split_images(images_dir) # {}
  /\ split_images' = identify_split_images(images_dir)
  /\ \E files \in find_files_to_delete(cleaner.keep_original, images_dir,
                                       labels_dir, identify_split_images(images_dir)) :
       cleaner' = [cleaner EXCEPT !.files_to_delete = files]
  /\ pc' = "previewed"
  /\ UNCHANGED <<self, img, regions, conv, splitVars, dataVars, ioVars,
                 backup_images, backup_labels, mainVars>>

\* lines 233-235
CleanupNothing ==
  /\ pc = "previewed"
  /\ cleaner.files_to_delete = {}
  /\ pc' = "cleaned"
  /\ UNCHANGED <<self, img, regions, conv, splitVars, dataVars, ioVars, cleanVars>>

\* line 237 never taken
DryRunIgnored == FALSE

\* line 237: if self.dry_run
DryRun == cleaner.dry_run

\* lines 237-239
CleanupDryRun ==
  /\ pc = "previewed"
  /\ cleaner.files_to_delete # {}
  /\ DryRun
  /\ pc' = "cleaned"
  /\ UNCHANGED <<self, img, regions, conv, splitVars, dataVars, ioVars, cleanVars>>

\* lines 242-269: the files are moved to the backup directory, images to
\* its images/ and the others to its labels/
CleanupMove ==
  /\ pc = "previewed"
  /\ cleaner.files_to_delete # {}
  /\ ~DryRun
  /\ cleaner.backup_dir
  /\ dirs' = dirs \cup {"backup", "backup/images", "backup/labels"}
  /\ backup_images' =
       WithFiles(backup_images,
                 {f \in FilesOf(cleaner.files_to_delete, images_dir, labels_dir) :
                    IsSupportedImage(f.name)})
  /\ backup_labels' =
       WithFiles(backup_labels,
                 {f \in FilesOf(cleaner.files_to_delete, images_dir, labels_dir) :
                    ~IsSupportedImage(f.name)})
  /\ images_dir' = Without(images_dir, "images", cleaner.files_to_delete)
  /\ labels_dir' = Without(labels_dir, "labels", cleaner.files_to_delete)
  /\ pc' = "cleaned"
  /\ UNCHANGED <<self, img, regions, conv, splitVars, image_files, idx,
                 cleaner, split_images, ioVars, mainVars>>

\* lines 271-285: the files are unlinked
CleanupDelete ==
  /\ pc = "previewed"
  /\ cleaner.files_to_delete # {}
  /\ ~DryRun
  /\ ~cleaner.backup_dir
  /\ images_dir' = Without(images_dir, "images", cleaner.files_to_delete)
  /\ labels_dir' = Without(labels_dir, "labels", cleaner.files_to_delete)
  /\ pc' = "cleaned"
  /\ UNCHANGED <<self, img, regions, conv, splitVars, dirs, image_files, idx,
                 cleanVars, ioVars>>

NextClean ==
  \/ PreviewNoSplitImages
  \/ PreviewFiles
  \/ CleanupNothing
  \/ CleanupDryRun
  \/ CleanupMove
  \/ CleanupDelete

SpecClean == InitClean /\ [][NextClean]_vars

----------------------------------------------------------------------------
(* main() of the cleaner: the command line, run once and once again.       *)

\* lines 325-349: -b is TRUE for a backup directory given
MainArgs == [delete : BOOLEAN, move : BOOLEAN, backup : BOOLEAN, keep_original : BOOLEAN]

\* line 352
ArgsConflict == args.delete /\ args.backup

\* line 357: dry_run = not (args.delete or args.move)
MainDryRun == ~(args.delete \/ args.move)

\* line 358
MainCleaner == SplitYOLOCleaner(MainDryRun, args.backup, args.keep_original)

\* cleaner lines 50-64
CleanerValid == RootDirs \subseteq dirs

\* the command line on a dataset directory, or on one without its labels
InitMain ==
  /\ pc = "main"
  /\ args \in MainArgs
  /\ cleanups = 0
  /\ cleaner = None
  /\ dirs \in {RootDirs, {"root", "root/images"}}
  /\ \E ds \in CleanDatasets :
       /\ images_dir = ImageFiles(ds.images)
       /\ labels_dir = IF "root/labels" \in dirs THEN LabelFiles(ds.labels) ELSE {}
  /\ image_files = <<>> /\ idx = 0
  /\ split_images = {}
  /\ backup_images = {} /\ backup_labels = {}
  /\ self = None /\ img = None /\ regions = <<>> /\ conv = None
  /\ NoSplitCall
  /\ NoWrites

\* lines 352-354
MainConflict ==
  /\ pc = "main"
  /\ ArgsConflict
  /\ pc' = "exit"
  /\ UNCHANGED <<self, img, regions, conv, splitVars, dataVars, ioVars, cleanVars>>

\* lines 357-362: validate_inputs() is False
MainInvalid ==
  /\ pc = "main"
  /\ ~ArgsConflict
  /\ ~CleanerValid
  /\ cleaner' = MainCleaner
  /\ pc' = "exit"
  /\ UNCHANGED <<self, img, regions, conv, splitVars, dataVars, ioVars,
                 split_images, backup_images, backup_labels, mainVars>>

\* lines 357-365: the cleaner is made and cleanup() called
MainCleanup ==
  /\ pc = "main"
  /\ ~ArgsConflict
  /\ CleanerValid
  /\ cleaner' = MainCleaner
  /\ pc' = "cleanup"
  /\ UNCHANGED <<self, img, regions, conv, splitVars, dataVars, ioVars,
                 split_images, backup_images, backup_labels, mainVars>>

\* the same command line is run a second time on the directory
RunAgain ==
  /\ pc = "cleaned"
  /\ args # None
  /\ cleanups = 0
  /\ cleanups' = 1
  /\ cleaner' = None
  /\ pc' = "main"
  /\ UNCHANGED <<self, img, regions, conv, splitVars, dataVars, ioVars,
                 split_images, backup_images, backup_labels, args>>

NextMain ==
  \/ MainConflict
  \/ MainInvalid
  \/ MainCleanup
  \/ PreviewNoSplitImages
  \/ PreviewFiles
  \/ CleanupNothing
  \/ CleanupDryRun
  \/ CleanupMove
  \/ CleanupDelete
  \/ RunAgain

SpecMain == InitMain /\ [][NextMain]_vars

----------------------------------------------------------------------------
(* The claims.                                                              *)

Called == conv # None
Accepted == conv.ret[1]
NewOf == conv.ret[2]
RegionX1 == conv.region[2]
RegionY1 == conv.region[3]
RegionX2 == conv.region[4]
RegionY2 == conv.region[5]

\* the box and the region share an area of positive width and height
OverlapsRegion ==
  /\ FLt(conv.clipped[1], conv.clipped[3])
  /\ FLt(conv.clipped[2], conv.clipped[4])

\* C1: for a box that meets the region in positive width and height, the
\* annotation is accepted iff area(clipped) / area(box) >= 0.10; a ratio of
\* exactly 0.10 is accepted.
C1_AcceptedIffTenPercent ==
  (Called /\ OverlapsRegion) =>
    /\ Accepted <=> FGe(conv.area_ratio, Dec(1, 10))
    /\ FLt(conv.area_ratio, Dec(1, 10)) => conv.ret = <<FALSE, NoList, FALSE>>

\* a ratio of exactly 0.10, accepted
C1_Witness ==
  /\ Called
  /\ OverlapsRegion
  /\ conv.area_ratio = Dec(1, 10)
  /\ Accepted

InUnit(v) == FLe(FZero, v) /\ FLe(v, FInt(1))

\* C2: an accepted annotation has its four fields in [0,1], width > 0 and
\* height > 0; an annotation of zero width or zero height is never
\* accepted.
C2_AcceptedIsNormalized ==
  Called =>
    /\ Accepted =>
         /\ \A k \in 1 .. 4 : InUnit(NewOf[k])
         /\ FGt(NewOf[3], FZero)
         /\ FGt(NewOf[4], FZero)
    /\ (conv.bbox[3] = FZero \/ conv.bbox[4] = FZero) => ~Accepted

\* an accepted annotation that the region cuts
C2_Witness ==
  /\ Called
  /\ Accepted
  /\ conv.clipped # conv.box
  /\ FLt(NewOf[3], FInt(1))

\* the pixel box lies in the region
InsideRegion ==
  /\ FGe(conv.box[1], FInt(RegionX1))
  /\ FGe(conv.box[2], FInt(RegionY1))
  /\ FLe(conv.box[3], FInt(RegionX2))
  /\ FLe(conv.box[4], FInt(RegionY2))

\* C3: for an accepted annotation, is_full is true iff the pixel box lies
\* entirely inside the region.
C3_FullIffInside ==
  (Called /\ Accepted) => (conv.ret[3] <=> InsideRegion)

\* C3, the half the code keeps: a box that the region cuts is never full.
C3_CutIsNeverFull ==
  (Called /\ Accepted /\ ~InsideRegion) => ~conv.ret[3]

FAbs(a) == IF a.s < 0 THEN FNeg(a) ELSE a

\* the new annotation in pixels of the region: <<x1, y1, x2, y2>>
Denormalized ==
  LET region_width == FInt(RegionX2 - RegionX1)
      region_height == FInt(RegionY2 - RegionY1)
      cx == FMul(NewOf[1], region_width)
      cy == FMul(NewOf[2], region_height)
      w == FMul(NewOf[3], region_width)
      h == FMul(NewOf[4], region_height)
  IN << FSub(cx, FDiv(w, FInt(2))), FSub(cy, FDiv(h, FInt(2))),
        FAdd(cx, FDiv(w, FInt(2))), FAdd(cy, FDiv(h, FInt(2))) >>

\* the pixel box moved by (-x1, -y1)
Translated ==
  << FSub(conv.box[1], FInt(RegionX1)), FSub(conv.box[2], FInt(RegionY1)),
     FSub(conv.box[3], FInt(RegionX1)), FSub(conv.box[4], FInt(RegionY1)) >>

Width(b) == FSub(b[3], b[1])
Height(b) == FSub(b[4], b[2])

\* C4 as claimed: for a box inside the region the new annotation,
\* denormalized by the region's width and height, equals the pixel box
\* moved by (-x1, -y1), with the same width and height.
C4_ExactTranslation ==
  (Called /\ InsideRegion /\ Accepted) =>
    /\ Denormalized = Translated
    /\ Width(Denormalized) = Width(conv.box)
    /\ Height(Denormalized) = Height(conv.box)

\* one part in 10^9 of a pixel
Tolerance == Dec(1, 1000000000)

Near(a, b) == FLe(FAbs(FSub(a, b)), Tolerance)

PositiveBox == FLt(conv.box[1], conv.box[3]) /\ FLt(conv.box[2], conv.box[4])

\* C4 as amended: for a box inside the region the corners, the width and
\* the height of the denormalized new annotation are within 10^-9 pixel of
\* the pixel box moved by (-x1, -y1).
C4_TranslationWithinTolerance ==
  (Called /\ InsideRegion /\ Accepted) =>
    /\ \A k \in 1 .. 4 : Near(Denormalized[k], Translated[k])
    /\ Near(Width(Denormalized), Width(conv.box))
    /\ Near(Height(Denormalized), Height(conv.box))

\* a box inside a region whose origin is not the image's
C4_Witness ==
  /\ Called
  /\ InsideRegion
  /\ PositiveBox
  /\ Accepted
  /\ RegionX1 > 0
  /\ RegionY1 > 0

\* the box and the region share no area: the x extents or the y extents
\* are apart, touch in one point, or one of them is empty
NoCommonArea ==
  \/ FLe(conv.box[3], FInt(RegionX1)) \/ FLe(FInt(RegionX2), conv.box[1])
  \/ FLe(conv.box[4], FInt(RegionY1)) \/ FLe(FInt(RegionY2), conv.box[2])
  \/ FLe(conv.box[3], conv.box[1]) \/ FLe(conv.box[4], conv.box[2])
  \/ RegionX2 <= RegionX1 \/ RegionY2 <= RegionY1

\* C5: a box without positive-area overlap with the region yields
\* accepted = false, no new annotation and is_full = false; so does the box
\* (90,90,95,95) of a 100x100 image against top_left = (0,0,55,55).
C5_NoOverlapRejected ==
  Called =>
    /\ NoCommonArea => conv.ret = <<FALSE, NoList, FALSE>>
    /\ ( /\ img = [width |-> 100, height |-> 100]
         /\ conv.box = <<FInt(90), FInt(90), FInt(95), FInt(95)>>
         /\ conv.region = <<"top_left", 0, 0, 55, 55>> )
       => conv.ret = <<FALSE, NoList, FALSE>>

C5_Witness ==
  /\ Called
  /\ img = [width |-> 100, height |-> 100]
  /\ conv.box = <<FInt(90), FInt(90), FInt(95), FInt(95)>>
  /\ conv.region = <<"top_left", 0, 0, 55, 55>>
  /\ NoCommonArea
  /\ conv.ret = <<FALSE, NoList, FALSE>>

\* floor(n * r) for the binary64 product n * r: the integer k with
\* k <= n * r < k + 1
IsFloorOfProduct(k, n, r) ==
  LET prod == FMul(FInt(n), r)
  IN FLe(FInt(k), prod) /\ FLt(prod, FInt(k + 1))

\* C6: calculate_split_regions returns top_left, top_right, bottom_left,
\* bottom_right (then center if enabled), in this order, with the quadrants
\* running from an image edge to the opposite split line, where
\* overlap = floor(side * r), mid = floor(side / 2) and the split lines are
\* mid -/+ floor(overlap / 2); a 100x100 image with r = 0.1 gives
\* (0,0,55,55), (45,0,100,55), (0,45,55,100), (45,45,100,100).
C6_QuadrantsAsSpecified ==
  pc = "calculated" =>
    \E overlap_w \in 0 .. img.width, overlap_h \in 0 .. img.height :
      LET W == img.width
          H == img.height
          mid_x == W \div 2
          mid_y == H \div 2
          left_split == mid_x - overlap_w \div 2
          right_split == mid_x + overlap_w \div 2
          top_split == mid_y - overlap_h \div 2
          bottom_split == mid_y + overlap_h \div 2
      IN /\ IsFloorOfProduct(overlap_w, W, self.overlap_ratio)
         /\ IsFloorOfProduct(overlap_h, H, self.overlap_ratio)
         /\ Len(regions) = (IF self.generate_center THEN 5 ELSE 4)
         /\ regions[1] = <<"top_left", 0, 0, right_split, bottom_split>>
         /\ regions[2] = <<"top_right", left_split, 0, W, bottom_split>>
         /\ regions[3] = <<"bottom_left", 0, top_split, right_split, H>>
         /\ regions[4] = <<"bottom_right", left_split, top_split, W, H>>
         /\ self.generate_center => regions[5][1] = "center"
         /\ (W = 100 /\ H = 100 /\ self.overlap_ratio = Dec(1, 10)) =>
               SubSeq(regions, 1, 4) =
                 << <<"top_left", 0, 0, 55, 55>>,
                    <<"top_right", 45, 0, 100, 55>>,
                    <<"bottom_left", 0, 45, 55, 100>>,
                    <<"bottom_right", 45, 45, 100, 100>> >>

C6_Witness ==
  /\ pc = "calculated"
  /\ img = [width |-> 100, height |-> 100]
  /\ self.overlap_ratio = Dec(1, 10)
  /\ ~self.generate_center
  /\ regions[2] = <<"top_right", 45, 0, 100, 55>>

InRegion(x, y, region) ==
  /\ region[2] <= x /\ x < region[4]
  /\ region[3] <= y /\ y < region[5]

\* C7: every pixel of the image lies in at least one of the four quadrants.
C7_QuadrantsCoverImage ==
  pc = "calculated" =>
    \A x \in 0 .. img.width - 1, y \in 0 .. img.height - 1 :
      \E i \in 1 .. 4 : InRegion(x, y, regions[i])

\* an image one pixel wide split without overlap: top_left is empty and the
\* pixel (0, 0) is covered by top_right
C7_Witness ==
  /\ pc = "calculated"
  /\ self.overlap_ratio = FZero
  /\ img.width = 1
  /\ img.height > 2
  /\ InRegion(0, 0, regions[2])
  /\ ~InRegion(0, 0, regions[1])

RegionInsideImage(region) ==
  /\ 0 <= region[2] /\ region[2] < region[4] /\ region[4] <= img.width
  /\ 0 <= region[3] /\ region[3] < region[5] /\ region[5] <= img.height

\* C8: for sides of at least 2, every region returned (quadrants and
\* center) has 0 <= x1 < x2 <= W and 0 <= y1 < y2 <= H.
C8_RegionsNonEmptyInsideImage ==
  (pc = "calculated" /\ img.width >= 2 /\ img.height >= 2) =>
    \A i \in 1 .. Len(regions) : RegionInsideImage(regions[i])

C8_Witness ==
  /\ pc = "calculated"
  /\ img = [width |-> 2, height |-> 3]
  /\ self.generate_center
  /\ self.overlap_ratio = Dec(50, 100)
  /\ Len(regions) = 5
  /\ regions[5][4] - regions[5][2] = 1

\* C9: with generate_center the fifth region is named center, is as wide
\* as right_split and as high as bottom_split (the size of top_left), and
\* its middle is within half a pixel of (mid_x, mid_y).
C9_CenterHasTopLeftSize ==
  (pc = "calculated" /\ self.generate_center) =>
    LET c == regions[5]
        top_left == regions[1]
        twice_mid_x == 2 * (img.width \div 2)
        twice_mid_y == 2 * (img.height \div 2)
    IN /\ Len(regions) = 5
       /\ c[1] = "center"
       /\ c[4] - c[2] = top_left[4]
       /\ c[5] - c[3] = top_left[5]
       /\ c[2] + c[4] - twice_mid_x \in {0, 1}
       /\ c[3] + c[5] - twice_mid_y \in {0, 1}

C9_Witness ==
  /\ pc = "calculated"
  /\ self.generate_center
  /\ img = [width |-> 100, height |-> 100]
  /\ self.overlap_ratio = Dec(1, 10)
  /\ regions[5] = <<"center", 23, 23, 78, 78>>

\* the result of convert_bbox_to_region for the i-th annotation and the
\* region of the loop
ResultFor(i) ==
  convert_bbox_to_region(annotations[i][2], img.width, img.height,
                         regions[ri][2], regions[ri][3], regions[ri][4], regions[ri][5])

\* the annotations the region of the loop accepts
AcceptedHere == {i \in 1 .. Len(annotations) : ResultFor(i)[1]}

NoAcceptedIsFull == \A i \in AcceptedHere : ~ResultFor(i)[3]

TileName == image_path.stem \o "_" \o regions[ri][1] \o image_path.suffix
TileLabelName == image_path.stem \o "_" \o regions[ri][1] \o ".txt"

\* the step leaves the tile of the region out: nothing written, nothing counted
TileSkipped ==
  /\ TileName \notin FileNames(out_images')
  /\ TileLabelName \notin FileNames(out_labels')
  /\ out_images' = out_images /\ out_labels' = out_labels
  /\ split_count' = split_count
  /\ self'.total_new_annotations = self.total_new_annotations

\* the step writes the tile of the region and its label file and counts them
TileSaved ==
  /\ TileName \in FileNames(out_images')
  /\ TileLabelName \in FileNames(out_labels')
  /\ split_count' = split_count + 1
  /\ self'.total_new_annotations =
       self.total_new_annotations + Cardinality(AcceptedHere)

\* C10: in split_image_and_labels the tile of a region is skipped (no tile
\* image, no label file, split_count and the annotation counter unchanged)
\* if and only if require_full_bbox is set and no accepted annotation of the
\* region is full; in every other case the tile image and its label file are
\* both written and counted.  Stated of the step that decides the tile of a
\* region, once its annotations are converted.
C10_SkippedIffNoFullBBox ==
  [][pc = "gate" =>
       IF self.require_full_bbox /\ NoAcceptedIsFull
       THEN TileSkipped
       ELSE TileSaved /\ ~TileSkipped]_vars

\* a quadrant (not the center) is the region of the loop
AtQuadrant == ri <= 4

\* C11 as stated: with require_full_bbox set, a quadrant for which no
\* annotation is accepted is still written, with an empty label file.
C11_EmptyQuadrantWritten ==
  [][(pc = "gate" /\ self.require_full_bbox /\ AtQuadrant /\ AcceptedHere = {})
       => /\ TileSaved
          /\ [name |-> TileLabelName, content |-> <<>>] \in out_labels']_vars

\* C11 amended: with require_full_bbox set, a quadrant for which no
\* annotation is accepted is skipped as any tile without a full annotation
\* is: no tile image, no label file, nothing counted.
C11_EmptyQuadrantSkipped ==
  [][(pc = "gate" /\ self.require_full_bbox /\ AtQuadrant /\ AcceptedHere = {})
       => TileSkipped]_vars

\* bottom_left of a 100x100 image whose only annotation lies in the bottom
\* right corner has been skipped
C11_Witness ==
  /\ pc = "region"
  /\ self.require_full_bbox
  /\ img = [width |-> 100, height |-> 100]
  /\ label_file = [lines |-> <<LineAcross, LineCorner>>]
  /\ ri = 4
  /\ tile.region[1] = "bottom_left"
  /\ tile.new_annotations = <<>>
  /\ tile.new_image_name \notin FileNames(out_images)

\* C12: the splitter names the tile of image S+E for region R S_R+E and its
\* label S_R.txt; the cleaner's identify_split_images takes S_R+E for a
\* tile, exactly one suffix of SPLIT_SUFFIXES matches its stem, and
\* stripping it gives S back.
C12_NamingRoundTrip ==
  /\ pc \in {"named", "identified"} =>
       /\ regions[ri][1] \in {"top_left", "top_right", "bottom_left",
                              "bottom_right", "center"}
       /\ tile.new_image_name =
            image_path.stem \o "_" \o regions[ri][1] \o image_path.suffix
       /\ tile.new_label_name = image_path.stem \o "_" \o regions[ri][1] \o ".txt"
  /\ pc = "identified" =>
       /\ tile.new_image_name \in split_images
       /\ Cardinality(MatchingSuffixes(PathStem(tile.new_image_name))) = 1
       /\ OriginalStems(tile.new_image_name) = {image_path.stem}

\* the center tile of an image whose own stem ends with a suffix
C12_Witness ==
  /\ pc = "identified"
  /\ image_path = [stem |-> "x_tl", suffix |-> ".JPG"]
  /\ tile.new_image_name = "x_tl_center.JPG"
  /\ split_images = {"x_tl_center.JPG"}

\* a tile of the image, by name, is present in images/
HasTileSibling(name) ==
  \E t \in identify_split_images(images_dir) : PathStem(name) \in OriginalStems(t)

\* the images that are not tiles by their name and have a tile sibling
OriginalsWithTiles ==
  {n \in FileNames(images_dir) :
     IsSupportedImage(n) /\ ~IsSplitStem(PathStem(n)) /\ HasTileSibling(n)}

\* C13: in default mode (keep_original = False) find_files_to_delete selects
\* exactly the original images (stem without a recognized suffix) that have
\* a tile sibling in images/, with their existing same-stem label files: no
\* file whose stem ends with a recognized suffix, and every original with a
\* tile sibling.
C13_DefaultSelectsOriginals ==
  (pc = "previewed" /\ ~cleaner.keep_original) =>
    cleaner.files_to_delete =
      {ImagePath(n) : n \in OriginalsWithTiles}
      \cup {LabelPath(PathStem(n) \o ".txt") :
              n \in {x \in OriginalsWithTiles :
                       (PathStem(x) \o ".txt") \in FileNames(labels_dir)}}

\* the stem of the file name ends with one of the nine suffixes
EndsWithSplitSuffix(name) ==
  \E suffix \in {"_top_left", "_top_right", "_bottom_left", "_bottom_right",
                 "_tl", "_tr", "_bl", "_br", "_center"} :
    EndsWith(PathStem(name), suffix)

\* the images of images/ that are tiles by extension and suffix
TileImages ==
  {n \in FileNames(images_dir) :
     LowerIsWritten(PathSuffix(n))
     /\ Lower(PathSuffix(n)) \in {".jpg", ".jpeg", ".png", ".bmp", ".tif", ".tiff"}
     /\ EndsWithSplitSuffix(n)}

\* C14: in keep-original mode find_files_to_delete selects exactly the images
\* of images/ with a supported extension whose stem ends with one of the
\* nine suffixes and the existing same-stem .txt label of each; nothing
\* selected has a stem without a recognized suffix.
C14_KeepOriginalSelectsTiles ==
  (pc = "previewed" /\ cleaner.keep_original) =>
    /\ cleaner.files_to_delete =
         {ImagePath(n) : n \in TileImages}
         \cup {LabelPath(PathStem(n) \o ".txt") :
                 n \in {x \in TileImages :
                          (PathStem(x) \o ".txt") \in FileNames(labels_dir)}}
    /\ \A p \in cleaner.files_to_delete : EndsWithSplitSuffix(p.name)

\* tiles with and without a label are selected next to originals, files of
\* other types and labels that are left alone
C14_Witness ==
  /\ pc = "previewed"
  /\ cleaner.keep_original
  /\ ImagePath("a_bottom_right.jpg") \in cleaner.files_to_delete
  /\ LabelPath("a_top_left.txt") \in cleaner.files_to_delete
  /\ LabelPath("a_bottom_right.txt") \notin cleaner.files_to_delete
  /\ "a.jpg" \in FileNames(images_dir)

\* the annotations of the lines from the i-th on that have five fields or
\* more and whose fields parse
RECURSIVE WellFormedFrom(_, _)
WellFormedFrom(lines, i) ==
  IF i > Len(lines) THEN <<>>
  ELSE (IF Len(Split(lines[i])) >= 5 /\ ~PartsRaise(Split(lines[i]))
        THEN <<ParseLine(Split(lines[i]))>> ELSE <<>>)
       \o WellFormedFrom(lines, i + 1)

WellFormedAnnotations(file) ==
  IF file = None THEN <<>> ELSE WellFormedFrom(file.lines, 1)

\* C16: a label line with too few fields, or with fields that do not parse
\* as an integer and four floats, is skipped by itself: once the label file
\* of an image that was read has been read, the annotations are those of
\* its well-formed lines, and the call never raises ValueError.
C16_MalformedLineSkipped ==
  /\ ret # [exception |-> "ValueError"]
  /\ (pc \in {"region", "gate", "returned"} /\ img # None)
       => annotations = WellFormedAnnotations(label_file)

\* the write of the tile of the region fails: the crop has no pixels, the
\* tile image cannot be written or the label file cannot be opened
WriteFailsHere ==
  /\ pc = "gate"
  /\ ~SkipsTile
  /\ EmptyImage(tile.cropped_img) \/ write_fault # "none"

\* C18: a tile whose image or label file cannot be written is not counted
\* (split_count, total_new_images and total_new_annotations keep their
\* values) and the loop goes on with the next region.
C18_WriteFailureRecovered ==
  [][WriteFailsHere =>
       /\ split_count' = split_count
       /\ self'.total_new_images = self.total_new_images
       /\ self'.total_new_annotations = self.total_new_annotations
       /\ ri' = ri + 1
       /\ pc' = "region"]_vars

\* the overlap ratio is outside [0, 0.5], or the root, images or labels
\* directory is missing
InvalidConfiguration ==
  \/ FLt(self.overlap_ratio, FZero)
  \/ FGt(self.overlap_ratio, Dec(1, 2))
  \/ ~(RootDirs \subseteq dirs)

CountersZero ==
  /\ self.total_images = 0 /\ self.total_split = 0
  /\ self.total_new_images = 0 /\ self.total_new_annotations = 0

\* C15: process() on an invalid configuration returns at once: no directory
\* is created or removed, no file is copied, written or deleted, and the
\* counters stay 0.
C15_InvalidConfigurationNoEffect ==
  [][(pc = "process" /\ InvalidConfiguration) =>
       /\ pc' = "rejected"
       /\ CountersZero'
       /\ writes' = <<>>
       /\ UNCHANGED <<dirs, images_dir, labels_dir, out_images, out_labels,
                      export_images, export_labels>>]_vars

\* a run rejected for its ratio alone, with an output and an export
\* directory asked for and not made
C15_Witness ==
  /\ pc = "rejected"
  /\ FGt(self.overlap_ratio, Dec(1, 2))
  /\ RootDirs \subseteq dirs
  /\ images_dir # {}
  /\ self.output_dir /\ "out" \notin dirs
  /\ self.export_dir /\ "export" \notin dirs
  /\ self.keep_original
  /\ CountersZero

\* the files of every directory
AllFiles == <<images_dir, labels_dir, out_images, out_labels, export_images, export_labels>>

\* C17: an image that cannot be read is abandoned alone: its call writes
\* nothing and returns 0, process() does not count it in total_split, and
\* the loop then calls split_image_and_labels on the next image of the
\* sorted list.
C17_UnreadableImageSkipped ==
  [][/\ (pc = "split" /\ idx >= 1 /\ image_file = None) =>
          /\ pc' = "returned" /\ ret' = [value |-> 0]
          /\ self' = self /\ writes' = writes
          /\ UNCHANGED AllFiles
     /\ (pc = "returned" /\ idx >= 1 /\ image_file = None) =>
          /\ self'.total_split = self.total_split
          /\ idx' = idx + 1 /\ pc' = "loop"
          /\ UNCHANGED AllFiles
     /\ (pc = "loop" /\ idx <= Len(image_files)) =>
          /\ pc' = "split"
          /\ image_path'.stem \o image_path'.suffix = image_files[idx]]_vars

\* a run over a.jpg, b.png that does not decode, and c.jpg: both others are
\* counted and tiled
C17_Witness ==
  /\ pc = "done"
  /\ image_files = <<"a.jpg", "b.png", "c.jpg">>
  /\ File("b.png", None) \in images_dir
  /\ self.total_images = 3 /\ self.total_split = 2
  /\ \E w \in 1 .. Len(writes) : writes[w].image = "c_top_left.jpg"
  /\ \A w \in 1 .. Len(writes) : writes[w].image # "b_top_left.png"

\* the annotation lines of the tile writes from the i-th on
RECURSIVE LinesWrittenFrom(_)
LinesWrittenFrom(i) ==
  IF i > Len(writes) THEN 0 ELSE writes[i].lines + LinesWrittenFrom(i + 1)

\* the positions of the images that had a tile written
ImagesTiled == {writes[w].call : w \in 1 .. Len(writes)}

\* C19: once process() has completed, total_new_images is the number of
\* tiles written, total_new_annotations the number of annotation lines
\* written to their label files, total_split the number of images that had
\* a tile written, at most total_images; with an output directory every
\* tile written is a file of it.
C19_CountersMatchWrites ==
  pc = "done" =>
    /\ self.total_new_images = Len(writes)
    /\ self.total_new_annotations = LinesWrittenFrom(1)
    /\ self.total_split = Cardinality(ImagesTiled)
    /\ self.total_split <= self.total_images
    /\ self.total_images = Len(image_files)
    /\ self.output_dir =>
         \A w \in 1 .. Len(writes) :
           /\ writes[w].image \in FileNames(out_images)
           /\ writes[w].label \in FileNames(out_labels)

\* C20: after process() with an output directory, keep_original set means
\* that every image of images/ and every .txt file of labels/ is in the
\* output tree under its name with its content, and keep_original not set
\* means that none of them is.
C20_OriginalsCopiedUnchanged ==
  (pc \in {"done", "no_images"} /\ self.output_dir) =>
    IF self.keep_original
    THEN SourceImages \subseteq out_images /\ SourceLabels \subseteq out_labels
    ELSE SourceImages \cap out_images = {} /\ SourceLabels \cap out_labels = {}

\* the positions of the annotations the region of the loop accepts, from
\* the i-th on, in the order of the label file
RECURSIVE AcceptedFrom(_)
AcceptedFrom(i) ==
  IF i > Len(annotations) THEN <<>>
  ELSE (IF ResultFor(i)[1] THEN <<i>> ELSE <<>>) \o AcceptedFrom(i + 1)

\* a label file lists the annotations at these positions: one line each, in
\* this order, five fields, the class_id first, ended by a newline
ListsAnnotations(content, accepted) ==
  /\ Len(content) = Len(accepted)
  /\ \A k \in 1 .. Len(content) :
       /\ Len(Split(content[k])) = 5
       /\ Split(content[k])[1] = IntStr(annotations[accepted[k]][1])
       /\ Char(content[k], Len(content[k])) = "\n"
       /\ \A p \in 1 .. Len(content[k]) - 1 : Char(content[k], p) # "\n"

\* C21: the label file of a tile lists the accepted annotations in the order
\* of the source label file, one line each with the class_id first, and a
\* second run on the same image, annotations and configuration writes the
\* same label files again.
C21_LabelOutputDeterministic ==
  [][(pc = "gate" /\ split_count' = split_count + 1) =>
       /\ ListsAnnotations(Content(out_labels', TileLabelName), AcceptedFrom(1))
       /\ idx = 2 => out_labels' = out_labels]_vars

\* the second run has written again a label file of two annotations
C21_Witness ==
  /\ pc = "region" /\ idx = 2 /\ ri > 1
  /\ tile # None
  /\ Len(tile.new_annotations) = 2
  /\ Len(annotations) >= 3
  /\ tile.new_label_name \in FileNames(out_labels)
  /\ Len(writes) > self.total_new_images
  /\ self.total_new_images > 0

\* scenario 2: the annotation (0.5, 0.5, 0.04, 0.04) of a 100x100 image
\* against top_left = (0, 0, 55, 55)
Scenario2 ==
  /\ Called
  /\ img = [width |-> 100, height |-> 100]
  /\ conv.bbox = <<Norm(500), Norm(500), Norm(40), Norm(40)>>
  /\ conv.region = <<"top_left", 0, 0, 55, 55>>

\* the new annotation is within 10^-6 of (xc, xc, w, w) / 55
NewOfOver55(xc, w) ==
  /\ FLe(FAbs(FSub(NewOf[1], Dec(xc, 55))), Dec(1, 1000000))
  /\ FLe(FAbs(FSub(NewOf[2], Dec(xc, 55))), Dec(1, 1000000))
  /\ FLe(FAbs(FSub(NewOf[3], Dec(w, 55))), Dec(1, 1000000))
  /\ FLe(FAbs(FSub(NewOf[4], Dec(w, 55))), Dec(1, 1000000))

\* C22 as stated: scenario 2 gives accepted, is_full and a new annotation of
\* about (48/55, 48/55, 4/55, 4/55).
C22_Scenario2Corner ==
  Scenario2 => /\ Accepted /\ conv.ret[3]
               /\ NewOfOver55(48, 4)

\* C22 amended: scenario 2 gives accepted, is_full and a new annotation of
\* about (50/55, 50/55, 4/55, 4/55), the center of the box (48,48,52,52)
\* over the side of the region.
C22_Scenario2Center ==
  Scenario2 => /\ Accepted /\ conv.ret[3]
               /\ NewOfOver55(50, 4)

C22_Witness ==
  /\ Scenario2
  /\ Accepted
  /\ conv.ret[3]

\* C23: a region without area, as a one pixel wide or high image has, is
\* rejected before anything is written: no tile image, no label file, and
\* the loop goes on with the next region.
C23_ZeroAreaRegionRejected ==
  [][(pc = "gate" /\ EmptyImage(tile.cropped_img)) =>
       /\ TileSkipped
       /\ ri' = ri + 1
       /\ pc' = "region"
       /\ ret' = None]_vars

\* C24: a cleaner constructed with dry_run = True deletes nothing, moves
\* nothing and creates no backup directory: cleanup() leaves the dataset
\* directory as it was, in both modes, with and without a backup directory.
C24_DryRunChangesNothing ==
  [][(cleaner # None /\ cleaner.dry_run) =>
       UNCHANGED <<dirs, images_dir, labels_dir, backup_images, backup_labels>>]_vars

\* a dry run that had files to move has ended and no backup directory is
\* there
C24_Witness ==
  /\ pc = "cleaned"
  /\ cleaner.dry_run
  /\ cleaner.backup_dir
  /\ cleaner.files_to_delete # {}
  /\ "backup" \notin dirs
  /\ FilesOf(cleaner.files_to_delete, images_dir, labels_dir) # {}

\* the files a step takes out of the dataset directory
RemovedImages == images_dir \ images_dir'
RemovedLabels == labels_dir \ labels_dir'

\* C25: the cleanup command unlinks files only under --delete; without it
\* the run is a preview, except that --move takes the selected files to the
\* backup directory, images to backup/images and labels to backup/labels.
C25_UnlinkOnlyWithDelete ==
  [][(args # None /\ ~args.delete) =>
       /\ RemovedImages \subseteq backup_images'
       /\ RemovedLabels \subseteq backup_labels'
       /\ (RemovedImages # {} \/ RemovedLabels # {}) => args.move /\ args.backup
       /\ ~args.move => UNCHANGED <<dirs, backup_images, backup_labels>>]_vars

\* the second run of a cleanup that deletes
SecondDeleteRun ==
  /\ cleanups = 1
  /\ cleaner # None
  /\ ~cleaner.dry_run /\ ~cleaner.backup_dir

\* C30: after a cleanup that deleted, in either mode, the same cleanup run
\* again on the directory selects no file and changes nothing.
C30_SecondCleanupSelectsNothing ==
  [][SecondDeleteRun =>
       /\ cleaner'.files_to_delete = {}
       /\ UNCHANGED <<dirs, images_dir, labels_dir, backup_images, backup_labels>>]_vars

\* the names of the label files of the four quadrants of the image
QuadrantLabelNames ==
  {NewLabelName(image_path, region_name) :
     region_name \in {"top_left", "top_right", "bottom_left", "bottom_right"}}

\* some quadrant's label file holds a line of the class
KeptInQuadrant(class_id) ==
  \E f \in out_labels :
    /\ f.name \in QuadrantLabelNames
    /\ \E j \in 1 .. Len(f.content) : Split(f.content[j])[1] = IntStr(class_id)

\* the pixel box lies inside the image
BoxInsideImage(box) ==
  /\ FGe(box[1], FZero) /\ FGe(box[2], FZero)
  /\ FLe(box[3], FInt(img.width)) /\ FLe(box[4], FInt(img.height))

\* an annotation of positive width and height whose pixel box lies inside
\* the image
InImagePositive(bbox) ==
  /\ FGt(bbox[3], FZero) /\ FGt(bbox[4], FZero)
  /\ BoxInsideImage(PixelBox(bbox, img.width, img.height))

\* the split returned without require_full_bbox
SplitKeptEveryTile ==
  pc = "returned" /\ ret = [value |-> split_count] /\ ~self.require_full_bbox

\* C26: on an image of sides >= 2, for an overlap in [0, 0.5], every
\* annotation of positive width and height whose pixel box lies inside the
\* image is kept in the label file of at least one quadrant.
C26_InImageAnnotationKept ==
  SplitKeptEveryTile =>
    \A i \in 1 .. Len(annotations) :
      InImagePositive(annotations[i][2]) => KeptInQuadrant(annotations[i][1])

\* the names of the images process() collected
OriginalImageNames == {image_files[i] : i \in 1 .. Len(image_files)}

\* C27: within one run of process() no two tiles are written under one
\* image path or one label path, and no tile is written under the name of
\* an original image or label that is kept in, or copied into, the
\* directory of the tiles.
C27_NoTwoWritesSamePath ==
  /\ \A i, j \in 1 .. Len(writes) :
       i # j => /\ writes[i].image # writes[j].image
                /\ writes[i].label # writes[j].label
  /\ self.keep_original =>
       \A i \in 1 .. Len(writes) :
         /\ writes[i].image \notin OriginalImageNames
         /\ writes[i].label \notin OriginalLabelNames \cap FileNames(labels_dir)

\* the deletion pass of lines 442-448 is about to run
DeletionPass ==
  pc = "loop" /\ idx > Len(image_files) /\ ~self.keep_original /\ ~self.output_dir

\* C28: in place without keep_original, the deletion pass runs once every
\* image has been tiled and removes the images collected at the start and
\* their labels, and no tile image or tile label written during the run.
C28_DeletionSparesTiles ==
  [][DeletionPass =>
       /\ \A i \in 1 .. Len(image_files) :
            /\ image_files[i] \notin FileNames(images_dir')
            /\ PathStem(image_files[i]) \o ".txt" \notin FileNames(labels_dir')
       /\ \A w \in 1 .. Len(writes) :
            /\ writes[w].image \in FileNames(images_dir)
                 => writes[w].image \in FileNames(images_dir')
            /\ writes[w].label \in FileNames(labels_dir)
                 => writes[w].label \in FileNames(labels_dir')]_vars

\* the output and export directories that exist when process() is called
\* keep their files
ExistingOutputKept ==
  /\ "out" \in dirs =>
       /\ "out" \in dirs'
       /\ out_images \subseteq out_images' /\ out_labels \subseteq out_labels'
  /\ "export" \in dirs =>
       /\ "export" \in dirs'
       /\ export_images \subseteq export_images'
       /\ export_labels \subseteq export_labels'

\* C29: process() with an output directory changes and deletes no file of
\* the source images and labels directories, whatever overwrite,
\* keep_original and the export directory are, and deletes an output or
\* export directory that exists only under overwrite.
C29_SourceOnlyRead ==
  [][self.output_dir =>
       /\ UNCHANGED <<images_dir, labels_dir>>
       /\ (pc = "process" /\ ~self.overwrite) => ExistingOutputKept]_vars

====
